---- MODULE Spec2Model ----
(***************************************************************************)
(* OpenParcel: the scraping pool (openparcel/scraper.py), the freshness    *)
(* cache of the track endpoints (app.py) and the parcel store they write.  *)
(*                                                                         *)
(* Every HTTP request is served by its own thread (Flask runs an async     *)
(* view in an event loop of the request's thread), so the steps of two     *)
(* requests interleave freely.  A step of the model is one section of the  *)
(* code that runs under the pool's list lock, under an operation's state   *)
(* lock or inside one database transaction.                                *)
(*                                                                         *)
(* Time is a discrete clock.  A day lasts DayLen ticks; DATEDIFF counts    *)
(* calendar days, is_outdated compares elapsed ticks.                      *)
(***************************************************************************)
EXTENDS Integers, Sequences, FiniteSets, TLC

\* ---------------------------------------------------------------- bounds
NumReq == 2                 \* request slots (each serves one request)
MaxInstances == 1           \* scraper.max_instances of the configuration
NumRand == 2                \* distinct values of the random part of a slug
DayLen == 2                 \* ticks per calendar day
OutdatedPeriodDays == 1     \* carrier.outdated_period_days, scaled down
RefreshTimeout == 2         \* cache.refresh_timeout, in ticks
MaxParcels == 2             \* no request is accepted with that many parcel rows
MaxHistory == 2             \* ... or that many snapshots stored
MaxTime == DayLen * OutdatedPeriodDays + 1
MaxDiff == RefreshTimeout + 4
MaxCodeLen == 3
MaxUserLen == 31
MaxErrId == 9
NumWorkers == 2
NumCarriers == 2
MaxTiming == 2
MaxItems == 1
MaxRows == 2
NumAdapters == 2
MaxCreatedDays == 3
MaxAgeDays == 4
MaxPassLen == 251

\* The length limits register() names
UserMinLen == 3
UserMaxLen == 30
PassMinLen == 6
PassMaxLen == 250

\* ------------------------------------------------------ program constants
SuperuserLevel == 100
SETUP == 1
FETCHING == 2
FETCHED == 3
SCRAPED == 4
DONE == 5

Reqs == 1..NumReq
Users == {"u1", "su"}
AccessLevel(u) == IF u = "su" THEN 100 ELSE 10
Keys == {"k1", "k2"}                   \* (carrier id, tracking code) pairs
ForceParams == {"none", "true", "false"}   \* the ?force= query value
Methods == {"POST", "DELETE"}
Outcomes == {"ok", "ParcelNotFound", "DriverError"}

\* Tracking codes: strings over a letter, a digit, the dash and a character
\* outside [A-Za-z0-9-]
ValidChars == {"A", "7", "-"}
Chars == ValidChars \cup {"!"}
Codes == UNION {[1..n -> Chars] : n \in 0..MaxCodeLen}
CodeRoutes == {"track", "save"}

\* The error names a scraping script reports: the classified ones and two
\* names outside the classification
ClassifiedCodes == {"ParcelNotFound", "InvalidTrackingCode", "RateLimiting",
                    "Blocked", "ProxyTimeout"}
ErrorCodes == ClassifiedCodes \cup {"Unexpected", ""}

\* Strings of one repeated character
Rep(c, n) == [i \in 1..n |-> c]

\* Usernames as the register form may carry them: a lowercase letter, a
\* digit or a character outside [a-z0-9_], repeated; passwords of every
\* length up to MaxPassLen
Letters == {"a"}
NameChars == Letters \cup {"1", "_"}
FormUsernames == {Rep(c, n) : c \in {"a", "1", "!"}, n \in 0..MaxUserLen}
FormPasswords == {Rep("x", n) : n \in 0..MaxPassLen}
Salts == {1}

\* The accounts, passwords and tokens of the account requests; an
\* authentication key is the list of its parts between colons, None when
\* the request carries no key.  Blank parts are empty or spaces only.
None == <<"None">>
NoKey == <<None>>
AcctNames == {Rep("a", 3), Rep("a", 4)}
AcctPasswords == {Rep("x", 6)}
TokenValues == {<<"f", "1">>, <<"f", "2">>}
BlankParts == {<<>>, <<" ">>}
NameParts == AcctNames \cup BlankParts
SecretParts == AcctPasswords \cup TokenValues \cup BlankParts
AuthKeys ==
    {NoKey} \cup {<<u>> : u \in NameParts}
           \cup {<<u, s>> : u \in NameParts, s \in SecretParts}
           \cup {<<u, s, s>> : u \in AcctNames, s \in TokenValues}
Descriptions == {None, <<" ">>, <<"d">>}

\* Proxy test workers, proxies by (addr, port, protocol), and what a
\* carrier's fetch through a proxy ends with: success, a ScrapingReturnedError
\* with its code, or a DrissionPage error
Workers == 1..NumWorkers
ProxyKeys == {"x", "y"}
FetchOutcomes == {"ok", "DriverError"} \cup ClassifiedCodes \cup {"Unexpected"}
NoSlug == <<"none", 0>>
\* The part of a slug that generate_slug derives from the parcel: the first
\* five characters of the carrier uid and the first eight of the tracking
\* code.  The two parcels of the model are of one carrier and their codes
\* differ after the eighth character.
SlugBase(k) == "p"
Slugs == {SlugBase(k) : k \in Keys} \X (1..NumRand)

VARIABLES
    now,        \* the clock
    parcels,    \* table parcels: sequence of [key, created, slug]; id = index
    history,    \* table history_cache: sequence of [pid, retrieved, data]
    links,      \* table user_parcels: set of [user, pid, name, archived]
    instances,  \* ScrapingPool.instances: sequence of operation ids
    ops,        \* the ScrapeOperation of each request slot
    req,        \* each request: position, inputs, its carrier object, response
    pure,       \* inputs and result of a bare call of a function
    accounts,   \* table users: set of [username, password, salt, level]
    tokens,     \* table auth_tokens: set of [token, user, active]
    areq,       \* the account request served last: inputs and answer
    proxies,    \* table proxies: sequence of rows; id = index
    workers,    \* the proxy test workers: position and Proxy object
    carrier_list \* carriers.carrier_list, the cached list of carrier classes

vars == <<now, parcels, history, links, instances, ops, req, pure,
          accounts, tokens, areq, proxies, workers, carrier_list>>

\* ---------------------------------------------------------------- helpers
Abs(x) == IF x < 0 THEN -x ELSE x

SeqToSet(s) == {s[i] : i \in DOMAIN s}

RECURSIVE Remove(_, _)
\* list.remove(x): drops the first occurrence of x
Remove(s, x) ==
    IF s = <<>> THEN <<>>
    ELSE IF Head(s) = x THEN Tail(s)
    ELSE <<Head(s)>> \o Remove(Tail(s), x)

\* MySQL DATEDIFF(NOW(), created): difference of the calendar days
DateDiff(t, created) == (t \div DayLen) - (created \div DayLen)

\* The condition of track()'s queries on a parcel row:
\* DATEDIFF(NOW(), created) < outdated_period_days
within_period(created, t) == DateDiff(t, created) < OutdatedPeriodDays

\* A datetime: t ticks; aware = it carries a time zone (datetime.now(UTC)),
\* while datetime.now() and the values read from the database are naive.
NowUTC(t) == [t |-> t, aware |-> TRUE]
Naive(t) == [t |-> t, aware |-> FALSE]

\* is_outdated with the subtraction reversed (created - now)
is_outdated_reversed(created, t) ==
    (created.t - t) > OutdatedPeriodDays * DayLen

\* BaseCarrier.is_outdated: elapsed time exceeds the period
is_outdated(created, t) == (t - created.t) > OutdatedPeriodDays * DayLen

\* is_superuser that accepts every registered user
is_superuser_any(u) == AccessLevel(u) >= 0

is_superuser(u) == AccessLevel(u) >= SuperuserLevel

\* request.args.get('force', default, type=bool): bool() of the string
ParseForce(param, default) ==
    IF param = "none" THEN default ELSE param # ""

\* should_refresh_parcel with a strict comparison against the timeout
should_refresh_parcel_strict(archived, timediff, force) ==
    force \/ (~archived /\ Abs(timediff) > RefreshTimeout)

should_refresh_parcel(archived, timediff, force) ==
    force \/ (~archived /\ Abs(timediff) >= RefreshTimeout)

\* BaseCarrier.is_similar on two carrier objects
is_similar(a, b) ==
    IF a.slug # NoSlug /\ b.slug # NoSlug
    THEN a.slug = b.slug
    ELSE a.key = b.key

\* A carrier object as its constructor leaves it: created is an aware
\* datetime (now(UTC)), no row, no slug, no payload.
NewCarrier(k, t) ==
    [key |-> k, dbid |-> 0, slug |-> NoSlug, name |-> "none",
     archived |-> FALSE, cached |-> FALSE,
     created |-> NowUTC(t), lastUpdated |-> NowUTC(t), data |-> 0]

\* BaseCarrier.from_cache
from_cache(c, dbid, data, created, lastUpdated, slug, name, archived) ==
    [c EXCEPT !.data = data, !.dbid = dbid, !.slug = slug, !.name = name,
              !.archived = archived, !.cached = TRUE,
              !.created = created, !.lastUpdated = lastUpdated]

NoResp == [status |-> 0, cached |-> FALSE, data |-> 0, retrieved |-> 0,
           outdated |-> FALSE,
           slug |-> NoSlug, archived |-> FALSE, name |-> "none"]

\* get_resp_dict(): as_dict() evaluates is_outdated(), which subtracts
\* created from the naive datetime.now(); with an aware created that is a
\* TypeError and the request ends with status 500.
get_resp_dict(c, t) ==
    IF c.created.aware
    THEN [NoResp EXCEPT !.status = 500]
    ELSE [status |-> 200, cached |-> c.cached, data |-> c.data,
          retrieved |-> c.lastUpdated.t, outdated |-> is_outdated(c.created, t),
          slug |-> c.slug, archived |-> c.archived, name |-> c.name]

\* What a request saw when it looked the parcel up (kept for the properties):
\* the row it resolved, and fresh/freshRetrieved/freshData = the most recent
\* snapshot stored for the requested (carrier, code) when it is younger than
\* the refresh timeout.
NoLookup == [at |-> 0, found |-> FALSE, pid |-> 0, retrieved |-> 0, data |-> 0,
             archived |-> FALSE, outdated |-> FALSE, forced |-> FALSE,
             stale |-> FALSE, fresh |-> FALSE, freshRetrieved |-> 0,
             freshData |-> {}, linked |-> FALSE, links |-> {},
             resolved |-> 0]

IdleReq ==
    [pc |-> "idle", kind |-> "none", user |-> "u1", key |-> "k1",
     slugArg |-> NoSlug, force |-> "none",
     c |-> NewCarrier("k1", 0), dupOf |-> 0, resp |-> NoResp,
     dispatched |-> FALSE, timedOut |-> FALSE, appended |-> 0,
     inserted |-> 0, method |-> "GET", hasName |-> FALSE, listing |-> {},
     lk |-> NoLookup]

\* dict is base_parcel._resp_dict, the dictionary object that the operation's
\* parcel and, after merge_resp_into, every coalesced parcel refer to
\* fetched is what base_parcel.fetch() did, logged whether a warning was
\* written, raised the exception that left run()
NoOp == [made |-> FALSE, state |-> SETUP, exc |-> "none", thread |-> "new",
         ended |-> FALSE, dict |-> NoResp, fetched |-> "none",
         logged |-> FALSE, raised |-> "none"]

\* No account, no token, no proxy, no account request, idle workers
NoAreq == [kind |-> "none", username |-> <<>>, password |-> <<>>,
           key |-> <<>>, token |-> <<>>, target |-> <<>>,
           auth |-> [ok |-> FALSE, uid |-> <<>>, status |-> 0,
                     failure |-> "none"],
           status |-> 0, before |-> {}]
NoProxy == [key |-> "none", dbid |-> 0, active |-> FALSE, speed |-> 0,
            valid |-> <<>>]
IdleWorker == [pc |-> "idle", job |-> "none", p |-> NoProxy, i |-> 0,
               ret |-> FALSE, queue |-> <<>>, n |-> 0, seen |-> <<>>,
               listed |-> {}, saved |-> {}]
NoList == <<0>>
InitTables ==
    /\ accounts = {}
    /\ tokens = {}
    /\ areq = NoAreq
    /\ proxies = <<>>
    /\ workers = [w \in Workers |-> IdleWorker]
    /\ carrier_list = NoList

NoPure == [called |-> FALSE, archived |-> FALSE, diff |-> 0, force |-> FALSE,
           result |-> FALSE]

Init ==
    /\ now = 0
    /\ parcels = <<>>
    /\ history = <<>>
    /\ links = {}
    /\ instances = <<>>
    /\ ops = [r \in Reqs |-> NoOp]
    /\ req = [r \in Reqs |-> IdleReq]
    /\ pure = NoPure
    /\ InitTables

\* ------------------------------------------------------------ the queries
\* Ids of the rows of a table
Ids(table) == DOMAIN table

\* ORDER BY created DESC LIMIT 1 over a set of parcel ids: the rows with the
\* greatest value (MySQL returns any one of them when several tie)
LatestCreated(rows) ==
    {i \in rows : \A j \in rows : parcels[j].created <= parcels[i].created}

\* ORDER BY history_cache.retrieved ASC LIMIT 1: the oldest snapshot
LatestRetrieved_asc(rows) ==
    {h \in rows : \A g \in rows : history[h].retrieved <= history[g].retrieved}

\* ORDER BY history_cache.retrieved DESC LIMIT 1 over a set of snapshot ids
LatestRetrieved(rows) ==
    {h \in rows : \A g \in rows : history[g].retrieved <= history[h].retrieved}

\* LEFT JOIN user_parcels: the user's links to a parcel, or one NULL row
\* A row of user_parcels is [user, pid, name, archived, row]; row numbers the
\* rows of one (user, pid), so that the table is a multiset of links.
NullLink == [user |-> "none", pid |-> 0, name |-> "none", archived |-> FALSE,
             row |-> 0]
LinksOf(u, pid) == {l \in links : l.user = u /\ l.pid = pid}
LeftJoinLinks(u, pid) ==
    IF LinksOf(u, pid) = {} THEN {NullLink} ELSE LinksOf(u, pid)

\* User u has a user_parcels row for a parcel with slug s
HasLink(u, s) ==
    \E i \in Ids(parcels) : parcels[i].slug = s /\ LinksOf(u, i) # {}

\* The slug query without its restriction to the requesting user
SlugLinks_any_user(u, pid) == {l \in links : l.pid = pid}

\* track_id: LEFT JOIN user_parcels ... WHERE (user_parcels.user_id = u)
SlugLinks(u, pid) == LinksOf(u, pid)

\* The most recent snapshot stored for a (carrier, code), whatever its parcel
\* row, when it is younger than the refresh timeout
SnapshotsOfKey(k) == {h \in Ids(history) : parcels[history[h].pid].key = k}
FreshOfKey(k) ==
    {h \in LatestRetrieved(SnapshotsOfKey(k)) :
        now - history[h].retrieved < RefreshTimeout}

\* ------------------------------------------------- GET /track/<carrier>/<code>
\* track(), from its entry to the call of scraping_pool.fetch: the request
\* either answers from the cache or goes on to the pool.
track(r, u, k, f) ==
    /\ req[r].pc = "idle"
    /\ LET c0 == NewCarrier(k, now)
           cand == {i \in Ids(parcels) :
                       /\ parcels[i].key = k
                       /\ within_period(parcels[i].created, now)}
           base == [req[r] EXCEPT !.kind = "code", !.user = u, !.key = k,
                                  !.force = f]
           ghost == [NoLookup EXCEPT
                       !.at = now,
                       !.fresh = FreshOfKey(k) # {},
                       !.freshRetrieved =
                           IF FreshOfKey(k) = {} THEN 0
                           ELSE history[CHOOSE h \in FreshOfKey(k) : TRUE].retrieved,
                       !.freshData = {history[h].data : h \in FreshOfKey(k)}]
       IN  \E pid \in (IF cand = {} THEN {0} ELSE LatestCreated(cand)) :
           LET rows == {h \in Ids(history) : pid # 0 /\ history[h].pid = pid}
           IN  \E h \in (IF rows = {} THEN {0} ELSE LatestRetrieved(rows)) :
               IF h = 0
               THEN \* no cached row: scrape (for the row found, if any)
                    /\ Len(parcels) < MaxParcels /\ Len(history) < MaxHistory
                    /\ req' = [req EXCEPT ![r] =
                        [base EXCEPT !.c = [c0 EXCEPT !.dbid = pid],
                                     !.lk = [ghost EXCEPT !.resolved = pid],
                                     !.dispatched = TRUE, !.pc = "get_op"]]
               ELSE \E l \in LeftJoinLinks(u, pid) :
                    LET force == IF is_superuser(u)
                                 THEN ParseForce(f, FALSE) ELSE FALSE
                        diff == history[h].retrieved - now
                        c1 == [c0 EXCEPT !.dbid = pid,
                                         !.slug = parcels[pid].slug,
                                         !.archived = l.archived,
                                         !.name = l.name]
                        c2 == from_cache(c1, pid, history[h].data,
                                         Naive(parcels[pid].created),
                                         Naive(history[h].retrieved),
                                         parcels[pid].slug, c1.name, c1.archived)
                        seen == [ghost EXCEPT
                                    !.found = TRUE, !.pid = pid,
                                    !.resolved = pid,
                                    !.retrieved = history[h].retrieved,
                                    !.data = history[h].data,
                                    !.archived = l.archived,
                                    !.forced = force,
                                    !.stale = Abs(diff) >= RefreshTimeout]
                    IN  IF ~should_refresh_parcel(c1.archived, diff, force)
                        THEN req' = [req EXCEPT ![r] =
                                [base EXCEPT !.c = c2, !.lk = seen,
                                             !.resp = get_resp_dict(c2, now),
                                             !.pc = "done"]]
                        ELSE /\ Len(parcels) < MaxParcels /\ Len(history) < MaxHistory
                             /\ req' = [req EXCEPT ![r] =
                                [base EXCEPT !.c = c1, !.lk = seen,
                                             !.dispatched = TRUE,
                                             !.pc = "get_op"]]
    /\ UNCHANGED <<now, parcels, history, links, instances, ops, pure,
                 accounts, tokens, areq, proxies, workers, carrier_list>>

\* ----------------------------------------------------- GET /track/<slug>
\* track_id(): resolves the slug through the user's link; an outdated parcel
\* or one that needs no refresh is answered from the stored snapshot, any
\* other goes through track() with the carrier already populated (db_id set,
\* so track() skips its own lookup).
track_id(r, u, s, f) ==
    /\ req[r].pc = "idle"
    /\ LET rows == {h \in Ids(history) :
                       /\ parcels[history[h].pid].slug = s
                       /\ SlugLinks(u, history[h].pid) # {}}
           base == [req[r] EXCEPT !.kind = "slug", !.user = u, !.slugArg = s,
                                  !.force = f]
       IN  IF rows = {}
           THEN req' = [req EXCEPT ![r] =
                    [base EXCEPT !.resp = [NoResp EXCEPT !.status = 404],
                                 !.lk = [NoLookup EXCEPT !.at = now,
                                           !.linked = HasLink(u, s)],
                                 !.pc = "done"]]
           ELSE \E h \in LatestRetrieved(rows) :
                \E l \in SlugLinks(u, history[h].pid) :
                LET pid == history[h].pid
                    diff == history[h].retrieved - now
                    c1 == from_cache(NewCarrier(parcels[pid].key, now), pid,
                                     history[h].data,
                                     Naive(parcels[pid].created),
                                     Naive(history[h].retrieved),
                                     parcels[pid].slug, l.name, l.archived)
                    seen == [NoLookup EXCEPT
                                !.at = now, !.found = TRUE, !.pid = pid,
                                !.linked = HasLink(u, s),
                                !.resolved = pid,
                                !.retrieved = history[h].retrieved,
                                !.data = history[h].data,
                                !.archived = l.archived,
                                !.outdated = (now - parcels[pid].created
                                              > OutdatedPeriodDays * DayLen),
                                !.stale = Abs(diff) >= RefreshTimeout]
                IN  IF \/ is_outdated(c1.created, now)
                       \/ ~should_refresh_parcel(c1.archived, diff, FALSE)
                    THEN req' = [req EXCEPT ![r] =
                            [base EXCEPT !.key = parcels[pid].key,
                                         !.c = c1, !.lk = seen,
                                         !.resp = get_resp_dict(c1, now),
                                         !.pc = "done"]]
                    ELSE /\ Len(parcels) < MaxParcels /\ Len(history) < MaxHistory
                         /\ req' = [req EXCEPT ![r] =
                            [base EXCEPT !.key = parcels[pid].key,
                                         !.c = c1, !.lk = seen,
                                         !.dispatched = TRUE,
                                         !.pc = "get_op"]]
    /\ UNCHANGED <<now, parcels, history, links, instances, ops, pure,
                 accounts, tokens, areq, proxies, workers, carrier_list>>

\* ------------------------------------------------------ ScrapingPool.fetch
\* get_operation(): the first in-flight operation whose base parcel is
\* similar; fetch() raises DuplicateScrapingOperation(op) for it, and track()
\* then waits for op.is_done().
get_operation(r) ==
    /\ req[r].pc = "get_op"
    /\ LET hits == {i \in DOMAIN instances :
                       is_similar(req[instances[i]].c, req[r].c)}
       IN  IF hits = {}
           THEN req' = [req EXCEPT ![r].pc = "admit"]
           ELSE LET first == CHOOSE i \in hits : \A j \in hits : i <= j
                IN  req' = [req EXCEPT ![r].pc = "wait_dup",
                                       ![r].dupOf = instances[first]]
    /\ UNCHANGED <<now, parcels, history, links, instances, ops, pure,
                 accounts, tokens, areq, proxies, workers, carrier_list>>

\* An asyncio.timeout(timeout) block around the whole of fetch()
in_timeout_block_whole_fetch(pc) == pc \in {"admit_sleep", "run_poll", "join"}

\* The awaits inside the "async with asyncio.timeout(timeout)" block of
\* fetch(): the sleep between two polls of is_available()
in_timeout_block(pc) == pc = "admit_sleep"

\* is_available(), polled every 0.3 s under asyncio.timeout(timeout)
is_available(r) ==
    /\ req[r].pc \in {"admit", "admit_sleep"}
    /\ req' = [req EXCEPT ![r].pc =
                  IF Len(instances) < MaxInstances THEN "add" ELSE "admit_sleep"]
    /\ UNCHANGED <<now, parcels, history, links, instances, ops, pure,
                 accounts, tokens, areq, proxies, workers, carrier_list>>

\* admission_timeout whose TimeoutError is not turned into
\* ServerOverwhelmedError: the request ends as an internal server error
admission_timeout_uncaught(r) ==
    /\ req[r].pc = "admit_sleep"
    /\ req' = [req EXCEPT ![r].pc = "done", ![r].timedOut = TRUE,
                          ![r].resp = [NoResp EXCEPT !.status = 500]]
    /\ UNCHANGED <<now, parcels, history, links, instances, ops, pure,
                 accounts, tokens, areq, proxies, workers, carrier_list>>

\* The deadline of asyncio.timeout fires while the request sleeps between two
\* polls: fetch() raises TimeoutError, track() turns it into
\* ServerOverwhelmedError (503).
admission_timeout(r) ==
    /\ in_timeout_block(req[r].pc)
    /\ req' = [req EXCEPT ![r].pc = "done", ![r].timedOut = TRUE,
                          ![r].resp = [NoResp EXCEPT !.status = 503]]
    /\ UNCHANGED <<now, parcels, history, links, instances, ops, pure,
                 accounts, tokens, areq, proxies, workers, carrier_list>>

\* ScrapeOperation(parcel), add_instance(op) and the thread.start() of run()
add_instance(r) ==
    /\ req[r].pc = "add"
    /\ instances' = Append(instances, r)
    /\ ops' = [ops EXCEPT ![r] = [NoOp EXCEPT !.made = TRUE,
                                              !.thread = "running"]]
    /\ req' = [req EXCEPT ![r].pc = "run_poll"]
    /\ UNCHANGED <<now, parcels, history, links, pure,
                 accounts, tokens, areq, proxies, workers, carrier_list>>

\* set_state(): the state is assigned under the operation's state lock
set_state(op, state) == [op EXCEPT !.state = state]

\* thread.is_alive(): the worker was started and has not ended
is_alive(op) == op.thread \in {"running", "fetching"}

\* thread.join() returns at once, whether or not the worker has ended
joined_at_once(op) == TRUE

\* thread.join() returns when the worker has ended
joined(op) == op.thread = "dead"

\* The worker thread, ScrapeOperation.fetch: set_state(FETCHING)
worker_begin(r) ==
    /\ ops[r].thread = "running"
    /\ ops' = [ops EXCEPT ![r] =
                  [set_state(ops[r], FETCHING) EXCEPT !.thread = "fetching"]]
    /\ UNCHANGED <<now, parcels, history, links, instances, req, pure,
                 accounts, tokens, areq, proxies, workers, carrier_list>>

\* The ScrapingReturnedError codes a carrier raises
ScrapingCodes == ClassifiedCodes \cup {"Unexpected"}

\* store_exception() that writes the warning whatever log is
store_exception_always_logs(op, exc, log) ==
    [op EXCEPT !.exc = exc, !.logged = TRUE]

\* store_exception(): the exception is kept, and the warning written if log
store_exception(op, exc, log) ==
    [op EXCEPT !.exc = exc, !.logged = log]

\* fetch(): the except clauses around base_parcel.fetch()
catch_fetch(op, outcome) ==
    IF outcome = "ok" THEN op
    ELSE IF outcome \in ScrapingCodes
    THEN store_exception(op, outcome,
                         outcome # "ParcelNotFound"
                           /\ outcome # "InvalidTrackingCode")
    ELSE store_exception(op, outcome, TRUE)

\* The worker thread: base_parcel.fetch() returns the payload or raises, the
\* exception is stored, set_state(FETCHED), and the thread ends.
worker_fetch(r, outcome) ==
    /\ ops[r].thread = "fetching"
    /\ ops' = [ops EXCEPT ![r] =
          [set_state(catch_fetch([ops[r] EXCEPT !.fetched = outcome],
                                 outcome),
                     FETCHED)
             EXCEPT !.thread = "dead"]]
    /\ req' = [req EXCEPT ![r].c.data =
                  IF outcome = "ok" THEN r ELSE req[r].c.data]
    /\ UNCHANGED <<now, parcels, history, links, instances, pure,
                 accounts, tokens, areq, proxies, workers, carrier_list>>

\* run(): "while not self.thread.is_alive(): await asyncio.sleep(1)".  With
\* the thread alive the loop is left at once; with the thread already ended it
\* is never left.
run_poll(r) ==
    /\ req[r].pc = "run_poll"
    /\ req' = [req EXCEPT ![r].pc =
                  IF is_alive(ops[r]) THEN "join" ELSE "spin"]
    /\ UNCHANGED <<now, parcels, history, links, instances, ops, pure,
                 accounts, tokens, areq, proxies, workers, carrier_list>>

\* The status an exception of the worker ends the request with
\* (ScrapingReturnedError is a TitledException with status 422; a driver
\* error becomes ScrapingBrowserError, 500)
ErrorStatus(exc) == IF exc \in ScrapingCodes THEN 422 ELSE 500

\* run(): thread.join(), set_state(SCRAPED), re-raise the stored exception;
\* run_instance(): drop_instance(op) when run() returned.
run_join(r) ==
    /\ req[r].pc = "join"
    /\ joined(ops[r])
    /\ IF ops[r].exc # "none"
       THEN /\ ops' = [ops EXCEPT ![r] =
                     [set_state(ops[r], SCRAPED) EXCEPT
                         !.ended = TRUE, !.raised = ops[r].exc]]
            /\ req' = [req EXCEPT ![r].pc = "done",
                          ![r].resp = [NoResp EXCEPT
                                          !.status = ErrorStatus(ops[r].exc)]]
            /\ UNCHANGED instances
       ELSE /\ ops' = [ops EXCEPT ![r] =
                     [set_state(ops[r], SCRAPED) EXCEPT !.ended = TRUE]]
            /\ instances' = Remove(instances, r)
            /\ req' = [req EXCEPT ![r].pc = "persist"]
    /\ UNCHANGED <<now, parcels, history, links, pure,
                 accounts, tokens, areq, proxies, workers, carrier_list>>

\* ------------------------------------------------- track(): write-through
\* BaseCarrier.generate_slug with the random part rnd
generate_slug(c, rnd) ==
    IF c.slug # NoSlug THEN c.slug ELSE <<SlugBase(c.key), rnd>>

\* First time the parcel is cached: INSERT INTO parcels, commit,
\* set_parcel_id, then the 'parcel_new' log entry evaluates carrier.as_dict()
\* and with it is_outdated(): a TypeError when created is aware.
persist_parcel(r, rnd) ==
    /\ req[r].pc = "persist"
    /\ req[r].c.dbid = 0
    /\ LET slug == generate_slug(req[r].c, rnd)
           c1 == [req[r].c EXCEPT !.slug = slug, !.dbid = Len(parcels) + 1]
       IN  /\ parcels' = Append(parcels,
                            [key |-> req[r].key, created |-> now, slug |-> slug])
           /\ IF c1.created.aware
              THEN req' = [req EXCEPT ![r].c = c1, ![r].pc = "done",
                              ![r].inserted = Len(parcels) + 1,
                              ![r].resp = [NoResp EXCEPT !.status = 500]]
              ELSE req' = [req EXCEPT ![r].c = c1,
                                      ![r].inserted = Len(parcels) + 1]
    /\ UNCHANGED <<now, history, links, instances, ops, pure,
                 accounts, tokens, areq, proxies, workers, carrier_list>>

\* INSERT INTO history_cache, commit
persist_history(r) ==
    /\ req[r].pc = "persist"
    /\ req[r].c.dbid # 0
    /\ history' = Append(history, [pid |-> req[r].c.dbid, retrieved |-> now,
                                   data |-> req[r].c.data])
    /\ req' = [req EXCEPT ![r].pc = "mark", ![r].appended = Len(history) + 1]
    /\ UNCHANGED <<now, parcels, links, instances, ops, pure,
                 accounts, tokens, areq, proxies, workers, carrier_list>>

\* op.mark_done()
mark_done(r) ==
    /\ req[r].pc = "mark"
    /\ ops' = [ops EXCEPT ![r] = set_state(ops[r], DONE)]
    /\ req' = [req EXCEPT ![r].pc = "build"]
    /\ UNCHANGED <<now, parcels, history, links, instances, pure,
                 accounts, tokens, areq, proxies, workers, carrier_list>>

\* The operation whose dictionary the parcel of request r refers to
DictOf(r) == IF req[r].dupOf = 0 THEN r ELSE req[r].dupOf

\* "return carrier.get_resp_dict()" of the request that scraped:
\* resp.update(self.as_dict()) writes the parcel's fields into the
\* operation's dictionary and the view returns that object; as_dict() raises
\* first when created is aware.
build_resp(r) ==
    /\ req[r].pc = "build"
    /\ IF get_resp_dict(req[r].c, now).status = 200
       THEN /\ ops' = [ops EXCEPT ![r].dict = get_resp_dict(req[r].c, now)]
            /\ req' = [req EXCEPT ![r].pc = "send"]
       ELSE /\ req' = [req EXCEPT ![r].pc = "done",
                                  ![r].resp = get_resp_dict(req[r].c, now)]
            /\ UNCHANGED ops
    /\ UNCHANGED <<now, parcels, history, links, instances, pure,
                 accounts, tokens, areq, proxies, workers, carrier_list>>

\* Flask serialises the dictionary the view returned: the response is what
\* the dictionary holds at that moment.
send_resp(r) ==
    /\ req[r].pc = "send"
    /\ req' = [req EXCEPT ![r].pc = "done", ![r].resp = ops[DictOf(r)].dict]
    /\ UNCHANGED <<now, parcels, history, links, instances, ops, pure,
                 accounts, tokens, areq, proxies, workers, carrier_list>>

\* merge_resp_into that takes the name and the archived flag of the base
\* parcel as well
merge_resp_into_base_flags(base, c) ==
    [from_cache(c, base.dbid, base.data, base.created, base.lastUpdated,
                base.slug, base.name, base.archived) EXCEPT !.cached = FALSE]

\* ScrapeOperation.merge_resp_into: the scraped fields of the base parcel, the
\* waiter's own name and archived flag, cached = False
merge_resp_into(base, c) ==
    [from_cache(c, base.dbid, base.data, base.created, base.lastUpdated,
                base.slug, c.name, c.archived) EXCEPT !.cached = FALSE]

\* The request that got DuplicateScrapingOperation(op): polls op.is_done()
\* every 0.5 s, then merge_resp_into makes its parcel refer to the
\* operation's dictionary and get_resp_dict() writes its own fields into it.
wait_duplicate(r) ==
    /\ req[r].pc = "wait_dup"
    /\ ops[req[r].dupOf].state >= DONE
    /\ LET c1 == merge_resp_into(req[req[r].dupOf].c, req[r].c)
       IN  IF get_resp_dict(c1, now).status = 200
           THEN /\ ops' = [ops EXCEPT ![req[r].dupOf].dict =
                                          get_resp_dict(c1, now)]
                /\ req' = [req EXCEPT ![r].c = c1, ![r].pc = "send"]
           ELSE /\ req' = [req EXCEPT ![r].c = c1, ![r].pc = "done",
                                      ![r].resp = get_resp_dict(c1, now)]
                /\ UNCHANGED ops
    /\ UNCHANGED <<now, parcels, history, links, instances, pure,
                 accounts, tokens, areq, proxies, workers, carrier_list>>

\* ------------------------------------------------ saved parcels, archiving
\* The same join filtered on the other users' rows
OwnLinks_other_users(u, s) ==
    {l \in links : l.user # u /\ l.pid \in Ids(parcels)
                             /\ parcels[l.pid].slug = s}

\* The rows of "parcels INNER JOIN user_parcels WHERE slug = s AND user_id = u"
OwnLinks(u, s) == {l \in links : l.user = u /\ l.pid \in Ids(parcels)
                                           /\ parcels[l.pid].slug = s}

\* The request r of kind k ends with the given status
Answer(r, k, u, m, n, st) ==
    [req[r] EXCEPT !.kind = k, !.user = u, !.method = m, !.hasName = n,
                   !.pc = "done", !.resp = [NoResp EXCEPT !.status = st],
                   !.lk = [NoLookup EXCEPT !.at = now, !.links = links]]

\* save_parcel_id(parcel_slug, name, archived, parcel_id).  nameArg and pidArg
\* are the arguments save_parcel passes ("none", 0 when the route is called
\* directly); formName tells whether the request carries a 'name' field.
\*   - name is None and the form has no name: len(None) is a TypeError (500);
\*   - the user already has the parcel: POST is rejected (422), DELETE
\*     removes the user's links to the row found;
\*   - the user has not: DELETE is rejected (422), POST inserts a link to
\*     parcel_id, or to a row with this slug (422 when there is none).
SaveById(r, k, u, s, m, nameArg, pidArg, formName) ==
    LET ans(st) == Answer(r, k, u, m, formName, st)
        ans2(st) == [ans(st) EXCEPT !.slugArg = s,
                                    !.lk.linked = OwnLinks(u, s) # {}]
    IN  IF nameArg = "none" /\ ~formName
        THEN /\ req' = [req EXCEPT ![r] = ans2(500)]
             /\ UNCHANGED links
        ELSE IF OwnLinks(u, s) # {}
        THEN IF m = "POST"
             THEN /\ req' = [req EXCEPT ![r] = ans2(422)]
                  /\ UNCHANGED links
             ELSE \E row \in OwnLinks(u, s) :
                  /\ links' = {l \in links : ~(l.pid = row.pid /\ l.user = u)}
                  /\ req' = [req EXCEPT ![r] = [ans2(200) EXCEPT
                                                   !.lk.pid = row.pid]]
        ELSE IF m = "DELETE"
        THEN /\ req' = [req EXCEPT ![r] = ans2(422)]
             /\ UNCHANGED links
        ELSE LET any == IF pidArg # 0 THEN {pidArg}
                        ELSE {i \in Ids(parcels) : parcels[i].slug = s}
             IN  IF any = {}
                 THEN /\ req' = [req EXCEPT ![r] = ans2(422)]
                      /\ UNCHANGED links
                 ELSE \E pid \in any :
                      /\ links' = links \cup
                            {[user |-> u, pid |-> pid, name |-> u,
                              archived |-> FALSE,
                              row |-> 1 + Cardinality(LinksOf(u, pid))]}
                      /\ req' = [req EXCEPT ![r] = [ans2(200) EXCEPT
                                                       !.lk.pid = pid]]

\* POST or DELETE /save/<slug>
save_parcel_id(r, u, s, m, formName) ==
    /\ req[r].pc = "idle"
    /\ SaveById(r, "save", u, s, m, "none", 0, formName)
    /\ UNCHANGED <<now, parcels, history, instances, ops, pure,
                 accounts, tokens, areq, proxies, workers, carrier_list>>

\* POST or DELETE /save/<carrier>/<code>: the first row of parcels LEFT JOIN
\* the user's links for this (carrier, code), in no stated order; 422 when
\* there is none, else save_parcel_id with the row's slug, link name and id.
save_parcel(r, u, k, m, formName) ==
    /\ req[r].pc = "idle"
    /\ LET rows == {i \in Ids(parcels) : parcels[i].key = k}
       IN  IF rows = {}
           THEN /\ req' = [req EXCEPT ![r] =
                      [Answer(r, "save_code", u, m, formName, 422)
                          EXCEPT !.key = k]]
                /\ UNCHANGED links
           ELSE \E i \in rows : \E l \in LeftJoinLinks(u, i) :
                /\ SaveById(r, "save_code", u, parcels[i].slug, m, l.name, i,
                            formName)
    /\ UNCHANGED <<now, parcels, history, instances, ops, pure,
                 accounts, tokens, areq, proxies, workers, carrier_list>>

\* The flag check that rejects only a POST on an archived link
ArchiveRejected_post_only(m, archived) == m = "POST" /\ archived

\* archive_flag_parcel: POST on an archived link and DELETE on a link that is
\* not archived are rejected
ArchiveRejected(m, archived) ==
    \/ m = "POST" /\ archived
    \/ m = "DELETE" /\ ~archived

\* POST or DELETE /archive/<slug>: rejected (422) when the user has not saved
\* the parcel or the flag already has the value, else the flag is updated on
\* the user's links to the row found.
archive_flag_parcel(r, u, s, m) ==
    /\ req[r].pc = "idle"
    /\ LET ans(st) == [Answer(r, "archive", u, m, FALSE, st) EXCEPT
                          !.slugArg = s, !.lk.linked = OwnLinks(u, s) # {}]
       IN  IF OwnLinks(u, s) = {}
           THEN /\ req' = [req EXCEPT ![r] = ans(422)]
                /\ UNCHANGED links
           ELSE \E row \in OwnLinks(u, s) :
                IF ArchiveRejected(m, row.archived)
                THEN /\ req' = [req EXCEPT ![r] =
                             [ans(422) EXCEPT !.lk.pid = row.pid,
                                              !.lk.archived = row.archived]]
                     /\ UNCHANGED links
                ELSE /\ links' = {IF l.user = u /\ l.pid = row.pid
                                  THEN [l EXCEPT !.archived = (m = "POST")]
                                  ELSE l : l \in links}
                     /\ req' = [req EXCEPT ![r] =
                             [ans(200) EXCEPT !.lk.pid = row.pid,
                                              !.lk.archived = row.archived]]
    /\ UNCHANGED <<now, parcels, history, instances, ops, pure,
                 accounts, tokens, areq, proxies, workers, carrier_list>>

\* GET /parcels: for every link of the user, the parcel's snapshot that
\* "ORDER BY retrieved DESC LIMIT 1" returns; a link whose parcel has no
\* snapshot is skipped.
list_parcels(r, u) ==
    /\ req[r].pc = "idle"
    /\ LET mine == {l \in links : l.user = u}
           snaps(l) == {h \in Ids(history) : history[h].pid = l.pid}
       IN  \E f \in [mine -> Ids(history) \cup {0}] :
           /\ \A l \in mine :
                 f[l] \in (IF snaps(l) = {} THEN {0}
                           ELSE LatestRetrieved(snaps(l)))
           /\ req' = [req EXCEPT ![r] =
                 [Answer(r, "list", u, "GET", FALSE, 200) EXCEPT
                     !.listing =
                        {[pid |-> l.pid, slug |-> parcels[l.pid].slug,
                          name |-> l.name, archived |-> l.archived,
                          retrieved |-> history[f[l]].retrieved,
                          data |-> history[f[l]].data] :
                             l \in {x \in mine : f[x] # 0}}]]
    /\ UNCHANGED <<now, parcels, history, links, instances, ops, pure,
                 accounts, tokens, areq, proxies, workers, carrier_list>>

\* The clock
Tick ==
    /\ now < MaxTime
    /\ now' = now + 1
    /\ UNCHANGED <<parcels, history, links, instances, ops, req, pure,
                 accounts, tokens, areq, proxies, workers, carrier_list>>

\* ------------------------------------------------- a carrier adapter's fetch
\* The adapters that fetch at the same time, each in its operation's worker
Adapters == 1..NumAdapters

\* A browser carrier as its constructor leaves it: no page.  failure is the
\* exception raised inside the try block of fetch(), raised the exception
\* that leaves fetch()
NewAdapter == [pc |-> "start", page |-> "none", failure |-> "none",
               raised |-> "none", returned |-> FALSE]

\* Everything but the adapters
AdaptersOnly ==
    UNCHANGED <<now, parcels, history, links, instances, ops, req,
                accounts, tokens, areq, proxies, workers, carrier_list>>

\* The try block of fetch() is left by exception exc: the finally clause runs
Fails(ad, exc) == [ad EXCEPT !.failure = exc, !.pc = "finally"]

\* _fetch_page(): ChromiumPage(opts) starts the browser and is assigned to
\* self.page, then page.get() loads the tracking page; either may raise
fetch_page(a, o) ==
    /\ pure[a].pc = "start"
    /\ pure' = [pure EXCEPT ![a] =
          IF o = "BrowserError" THEN Fails(pure[a], o)
          ELSE IF o = "PageError"
          THEN Fails([pure[a] EXCEPT !.page = "open"], o)
          ELSE [pure[a] EXCEPT !.page = "open", !.pc = "load_js"]]
    /\ AdaptersOnly

\* _load_scraping_js(): the scripts are read and run in the page
load_scraping_js(a, o) ==
    /\ pure[a].pc = "load_js"
    /\ pure' = [pure EXCEPT ![a] =
          IF o = "ok" THEN [pure[a] EXCEPT !.pc = "wait"]
          ELSE Fails(pure[a], o)]
    /\ AdaptersOnly

\* _wait_page_complete(): the first wait is followed by the error check,
\* also when it timed out; the second one by the scrape
wait_page_complete(a, o) ==
    /\ pure[a].pc \in {"wait", "wait2"}
    /\ pure' = [pure EXCEPT ![a] =
          IF pure[a].pc = "wait"
          THEN [pure[a] EXCEPT !.pc = IF o = "ok" THEN "check"
                                      ELSE "check_timeout"]
          ELSE IF o = "ok" THEN [pure[a] EXCEPT !.pc = "scrape"]
          ELSE Fails(pure[a], o)]
    /\ AdaptersOnly

\* _scrape_check_error(): raises the error the page shows; after a timed-out
\* wait without such an error the WaitTimeoutError is raised again
scrape_check_error(a, o) ==
    /\ pure[a].pc \in {"check", "check_timeout"}
    /\ pure' = [pure EXCEPT ![a] =
          IF o # "ok" THEN Fails(pure[a], o)
          ELSE IF pure[a].pc = "check" THEN [pure[a] EXCEPT !.pc = "wait2"]
          ELSE Fails(pure[a], "WaitTimeoutError")]
    /\ AdaptersOnly

\* _scrape(): the tracking history, or the error the scraper returned
scrape(a, o) ==
    /\ pure[a].pc = "scrape"
    /\ pure' = [pure EXCEPT ![a] =
          IF o = "ok" THEN [pure[a] EXCEPT !.pc = "finally"]
          ELSE Fails(pure[a], o)]
    /\ AdaptersOnly

\* The finally clause of fetch(): _close_page() is self.page.close() and
\* self.page = None; with no page, the attribute lookup on None raises
close_page(a) ==
    /\ pure[a].pc = "finally"
    /\ pure' = [pure EXCEPT ![a] =
          IF pure[a].page = "none"
          THEN [pure[a] EXCEPT !.pc = "end", !.raised = "AttributeError"]
          ELSE [pure[a] EXCEPT !.pc = "end", !.page = "none",
                               !.raised = pure[a].failure,
                               !.returned = (pure[a].failure = "none")]]
    /\ AdaptersOnly

\* The two outdated tests on one parcel at one time: the condition of the
\* lookup by (carrier, code) and is_outdated() of the carrier that track_id
\* populated from the row
call_outdated_tests ==
    /\ ~pure.called
    /\ pure' = [pure EXCEPT
                  !.called = TRUE,
                  !.found = within_period(pure.created, pure.t),
                  !.outdated = is_outdated(Naive(pure.created), pure.t)]
    /\ UNCHANGED <<now, parcels, history, links, instances, ops, req,
                 accounts, tokens, areq, proxies, workers, carrier_list>>

\* dup.op.merge_resp_into(carrier) alone: pure.a is the operation's base
\* parcel, pure.b the waiter's parcel
call_merge_resp_into ==
    /\ pure.called = "none"
    /\ pure' = [pure EXCEPT !.called = "merge",
                            !.merged = merge_resp_into(pure.a, pure.b)]
    /\ UNCHANGED <<now, parcels, history, links, instances, ops, req,
                 accounts, tokens, areq, proxies, workers, carrier_list>>

\* instance.base_parcel.is_similar(parcel) alone, as get_operation calls it
call_is_similar ==
    /\ pure.called = "none"
    /\ pure' = [pure EXCEPT !.called = "similar",
                            !.similar = is_similar(pure.a, pure.b)]
    /\ UNCHANGED <<now, parcels, history, links, instances, ops, req,
                 accounts, tokens, areq, proxies, workers, carrier_list>>

\* A bare call of should_refresh_parcel on the arguments held in pure
call_should_refresh ==
    /\ ~pure.called
    /\ pure' = [pure EXCEPT !.called = TRUE,
                            !.result = should_refresh_parcel(
                                           pure.archived, pure.diff, pure.force)]
    /\ UNCHANGED <<now, parcels, history, links, instances, ops, req,
                 accounts, tokens, areq, proxies, workers, carrier_list>>

\* BaseCarrier.is_tracking_code_valid: re.search('[^A-Za-z0-9-]+', code) finds
\* no run of characters outside the class
is_tracking_code_valid(code) ==
    ~\E i \in 1..Len(code) : code[i] \notin ValidChars

\* The first check of track() and save_parcel() on the code held in pure:
\* TrackingCodeInvalid (422) when the code is not valid, else the view goes on
check_code(route) ==
    /\ ~pure.called
    /\ pure' = [pure EXCEPT
                  !.called = TRUE,
                  !.route = route,
                  !.result = is_tracking_code_valid(pure.code),
                  !.status = IF ~is_tracking_code_valid(pure.code)
                             THEN 422 ELSE 0]
    /\ UNCHANGED <<now, parcels, history, links, instances, ops, req,
                 accounts, tokens, areq, proxies, workers, carrier_list>>

\* ------------------------------------------------- ScrapingReturnedError
\* TitledException.__init__: stores title, message and status_code
TitledException_init(e, title, status_code) ==
    [e EXCEPT !.title = title, !.status_code = status_code]

\* ScrapingReturnedError._get_title: the title of a classified code; for any
\* other code it sets self.status_code = 500 and returns 'Unknown error'.
\* The result is the object after the call and the title returned.
get_title(e) ==
    IF e.code \in ClassifiedCodes
    THEN [obj |-> e, title |-> e.code]
    ELSE [obj |-> [e EXCEPT !.status_code = 500], title |-> "Unknown error"]

\* ScrapingReturnedError.__init__(err_obj): the fields of err_obj, then
\* super().__init__(self._get_title(), self._get_description(), 422) with
\* its arguments evaluated before the call
ScrapingReturnedError(err_id, code, data) ==
    LET e0 == [err_id |-> err_id, code |-> code, data |-> data,
               title |-> "", status_code |-> 0]
        t == get_title(e0)
    IN  TitledException_init(t.obj, t.title, 422)

\* The exception object built from the error held in pure
raise_scraping_error ==
    /\ ~pure.called
    /\ pure' = [pure EXCEPT
                  !.called = TRUE,
                  !.exc = ScrapingReturnedError(pure.err_id, pure.code,
                                                pure.data)]
    /\ UNCHANGED <<now, parcels, history, links, instances, ops, req,
                   accounts, tokens, areq, proxies, workers, carrier_list>>

\* ------------------------------------------------------- accounts, tokens
\* re.match(r'^[a-z][a-z0-9_]+$', username)
username_clean(username) ==
    /\ Len(username) >= 2
    /\ username[1] \in Letters
    /\ \A i \in 2..Len(username) : username[i] \in NameChars

\* "if 30 < len(username) < 3" and "if 250 < len(password) < 6": Python's
\* chained comparison, both halves must hold
username_length_rejected(username) ==
    UserMaxLen < Len(username) /\ Len(username) < UserMinLen
password_length_rejected(password) ==
    PassMaxLen < Len(password) /\ Len(password) < PassMinLen

\* hashlib.pbkdf2_hmac('sha256', password, salt, 100_000).hex(): distinct
\* for distinct (password, salt)
password_hash(password, salt) == <<"pbkdf2", password, salt>>

\* The account request ends with the given status
AccountAnswer(kind, username, password, st) ==
    [NoAreq EXCEPT !.kind = kind, !.username = username,
                   !.password = password, !.status = st]

\* POST /register with the form fields username and password; allow is
\* config.app('allow_registration')
register(username, password, allow, salt) ==
    LET ans(st) == AccountAnswer("register", username, password, st)
    IN  /\ IF \/ ~allow
              \/ ~username_clean(username)
              \/ username_length_rejected(username)
              \/ password_length_rejected(password)
              \/ \E a \in accounts : a.username = username
           THEN /\ areq' = ans(422)
                /\ UNCHANGED accounts
           ELSE /\ accounts' = accounts \cup
                      {[username |-> username,
                        password |-> password_hash(password, salt),
                        salt |-> salt, level |-> 0]}
                /\ areq' = ans(200)
        /\ UNCHANGED <<now, parcels, history, links, instances, ops, req, pure,
                       tokens, proxies, workers, carrier_list>>

\* str.strip() leaves nothing
IsBlank(s) == \A i \in 1..Len(s) : s[i] = " "

\* The outcome of an authentication: the user id, or the exception's status
AuthOk(uid) == [ok |-> TRUE, uid |-> uid, status |-> 0, failure |-> "none"]
AuthFail(st, why) == [ok |-> FALSE, uid |-> None, status |-> st, failure |-> why]

\* The token query without the condition on the active flag
ActiveTokens_any(tbl, u, t) == {k \in tbl : k.token = t /\ k.user = u}

\* auth_tokens INNER JOIN users WHERE token = t AND username = u AND active
ActiveTokens(tbl, u, t) ==
    {k \in tbl : k.token = t /\ k.user = u /\ k.active}

\* authenticate(username, password, auth_token) at the start of a request
authenticate(username, password, auth_token) ==
    IF username = None /\ password = None /\ auth_token = None
    THEN AuthFail(401, "nothing_provided")
    ELSE IF username = None
    THEN AuthFail(400, "missing_username")
    ELSE IF password = None /\ auth_token = None
    THEN AuthFail(400, "missing_secret")
    ELSE IF password # None /\ auth_token # None
    THEN AuthFail(422, "both_secrets")
    ELSE IF ~\E a \in accounts : a.username = username
    THEN AuthFail(401, "unknown_username")
    ELSE IF password # None
    THEN IF \E a \in accounts :
               /\ a.username = username
               /\ a.password = password_hash(password, a.salt)
         THEN AuthOk(username)
         ELSE AuthFail(401, "wrong_password")
    ELSE IF ActiveTokens(tokens, username, auth_token) # {}
         THEN AuthOk(username)
         ELSE AuthFail(401, "wrong_token")

\* http_authenticate(use_secrets) on the authentication key of the request:
\* the key is split at ':' and must have two parts that are not blank; the
\* secret is tried as a password, then as a token, as use_secrets allows, and
\* the last failure is raised when none succeeds.
http_authenticate(key, use_password, use_token) ==
    IF key = NoKey
    THEN AuthFail(401, "missing_key")
    ELSE IF Len(key) # 2 \/ IsBlank(key[1]) \/ IsBlank(key[2])
    THEN AuthFail(200, "malformed_key")
    ELSE LET byPassword == authenticate(key[1], key[2], None)
             byToken == authenticate(key[1], None, key[2])
         IN  IF use_password /\ byPassword.ok THEN byPassword
             ELSE IF use_token THEN byToken
             ELSE byPassword

\* The answer of an account request that authenticated as auth
AuthedAnswer(kind, key, auth, st) ==
    [NoAreq EXCEPT !.kind = kind, !.key = key, !.auth = auth,
                   !.status = st, !.before = tokens]

\* Any view that starts with http_authenticate('auth_token') (track,
\* track_id, save, archive, list): it goes on only when authenticated
resource_request(key) ==
    /\ LET auth == http_authenticate(key, FALSE, TRUE)
       IN  areq' = AuthedAnswer("resource", key, auth,
                                IF auth.ok THEN 200 ELSE auth.status)
    /\ UNCHANGED <<now, parcels, history, links, instances, ops, req, pure,
                   accounts, tokens, proxies, workers, carrier_list>>

\* authenticate() called with explicit arguments, as create_auth_token and
\* revoke_auth_token do when they are given a username
call_authenticate(username, password, auth_token) ==
    /\ LET auth == authenticate(username, password, auth_token)
       IN  areq' = AuthedAnswer("authenticate", <<username, password, auth_token>>,
                                auth, IF auth.ok THEN 200 ELSE auth.status)
    /\ UNCHANGED <<now, parcels, history, links, instances, ops, req, pure,
                   accounts, tokens, proxies, workers, carrier_list>>

\* POST /auth/token/new: password authentication, then a description that
\* must be present (400) and not blank (422); the token is
\* secrets.token_hex(20), a value no stored token has.
create_auth_token(key, description, value) ==
    /\ value \notin {k.token : k \in tokens}
    /\ LET auth == http_authenticate(key, TRUE, FALSE)
           ans(st) == AuthedAnswer("token_new", key, auth, st)
       IN  IF ~auth.ok
           THEN areq' = ans(auth.status) /\ UNCHANGED tokens
           ELSE IF description = None
           THEN areq' = ans(400) /\ UNCHANGED tokens
           ELSE IF IsBlank(description)
           THEN areq' = ans(422) /\ UNCHANGED tokens
           ELSE /\ tokens' = tokens \cup
                      {[token |-> value, user |-> auth.uid, active |-> TRUE]}
                /\ areq' = [ans(200) EXCEPT !.token = value]
    /\ UNCHANGED <<now, parcels, history, links, instances, ops, req, pure,
                   accounts, proxies, workers, carrier_list>>

\* UPDATE auth_tokens SET active = false on one row
set_inactive(k) == [k EXCEPT !.active = FALSE]

\* DELETE /auth/token/<revoke_token>: password or token authentication; 422
\* unless the user has an active token with this value; then the user's rows
\* with this value are set inactive.
revoke_auth_token(key, revoke_token) ==
    /\ LET auth == http_authenticate(key, TRUE, TRUE)
           ans(st) == [AuthedAnswer("revoke", key, auth, st) EXCEPT
                          !.target = revoke_token]
       IN  IF ~auth.ok
           THEN areq' = ans(auth.status) /\ UNCHANGED tokens
           ELSE IF ActiveTokens(tokens, auth.uid, revoke_token) = {}
           THEN areq' = ans(422) /\ UNCHANGED tokens
           ELSE /\ tokens' = {IF k.token = revoke_token /\ k.user = auth.uid
                               THEN set_inactive(k) ELSE k : k \in tokens}
                /\ areq' = ans(200)
    /\ UNCHANGED <<now, parcels, history, links, instances, ops, req, pure,
                   accounts, proxies, workers, carrier_list>>

\* ------------------------------------------------------------- proxies
\* The web service's state, which no proxy step touches
ServiceUnchanged ==
    UNCHANGED <<now, parcels, history, links, instances, ops, req, pure,
                accounts, tokens, areq>>

\* round(): to the nearest integer, a tie to the even one
Round(num, den) ==
    LET q == num \div den
        r == num % den
    IN  IF 2 * r < den THEN q
        ELSE IF 2 * r > den THEN q + 1
        ELSE IF q % 2 = 0 THEN q ELSE q + 1

RECURSIVE SumTimings(_)
SumTimings(valid) ==
    IF valid = <<>> THEN 0 ELSE Head(valid).timing + SumTimings(Tail(valid))

\* Proxy(...) as _append_item builds it from an item of the provider's list
NewProxy(key) ==
    [key |-> key, dbid |-> 0, active |-> TRUE, speed |-> 0, valid |-> <<>>]

\* Proxy.from_row
from_row(id) ==
    [key |-> proxies[id].key, dbid |-> id, active |-> proxies[id].active,
     speed |-> proxies[id].speed, valid |-> proxies[id].carriers]

\* Proxy.list: the rows with active = true, in table order
RECURSIVE ListFrom(_)
ListFrom(id) ==
    IF id > Len(proxies) THEN <<>>
    ELSE IF proxies[id].active THEN <<from_row(id)>> \o ListFrom(id + 1)
    ELSE ListFrom(id + 1)
Proxy_list == ListFrom(1)

\* A pool worker takes an item of the provider's response: _append_item
\* builds the Proxy and calls append()
import_item(w, key) ==
    /\ workers[w].pc = "idle"
    /\ workers[w].n < MaxItems
    /\ Len(proxies) < MaxRows
    /\ \A v \in Workers : workers[v].job # "refresh"
    /\ workers' = [workers EXCEPT ![w] =
          [IdleWorker EXCEPT !.pc = "dup", !.job = "import", !.p = NewProxy(key),
                             !.n = workers[w].n + 1]]
    /\ UNCHANGED <<proxies, carrier_list>>
    /\ ServiceUnchanged

\* is_duplicate that counts the active rows only
is_duplicate_active_only(p) ==
    \E id \in DOMAIN proxies : proxies[id].key = p.key /\ proxies[id].active

\* Proxy.is_duplicate: a row with this (addr, port, protocol) exists
is_duplicate(p) == \E id \in DOMAIN proxies : proxies[id].key = p.key

\* append(): a duplicate is ignored (returns False); else test() starts with
\* an empty valid_carriers
append_check(w) ==
    /\ workers[w].pc = "dup"
    /\ IF is_duplicate(workers[w].p)
       THEN workers' = [workers EXCEPT ![w].pc = "idle", ![w].job = "none"]
       ELSE workers' = [workers EXCEPT ![w].pc = "carriers",
                                       ![w].p.valid = <<>>, ![w].seen = <<>>]
    /\ UNCHANGED <<proxies, carrier_list>>
    /\ ServiceUnchanged

\* carriers(): the first call creates the empty list and goes on to fill it;
\* any other call returns the list object as it is
carriers_call(w) ==
    /\ workers[w].pc = "carriers"
    /\ IF carrier_list = NoList
       THEN /\ carrier_list' = <<>>
            /\ workers' = [workers EXCEPT ![w].pc = "populate"]
       ELSE /\ workers' = [workers EXCEPT ![w].pc = "test", ![w].i = 1]
            /\ UNCHANGED carrier_list
    /\ UNCHANGED proxies
    /\ ServiceUnchanged

\* carriers(): carrier_list.append(mod_obj) for each carrier class, then the
\* list is returned
carriers_append(w) ==
    /\ workers[w].pc = "populate"
    /\ IF Len(carrier_list) < NumCarriers
       THEN /\ carrier_list' = Append(carrier_list, Len(carrier_list) + 1)
            /\ UNCHANGED workers
       ELSE /\ workers' = [workers EXCEPT ![w].pc = "test", ![w].i = 1]
            /\ UNCHANGED carrier_list
    /\ UNCHANGED proxies
    /\ ServiceUnchanged

\* The outcomes of fetch that record the carrier as valid
RecordsCarrier_all_scraping_errors(outcome) == outcome # "DriverError"

RecordsCarrier(outcome) ==
    outcome \in {"ok", "ParcelNotFound", "InvalidTrackingCode"}

\* test(): one turn of "for carrier in carriers()", the fetch ending with
\* outcome after timing milliseconds
test_carrier(w, outcome, timing) ==
    /\ workers[w].pc = "test"
    /\ workers[w].i <= Len(carrier_list)
    /\ LET c == carrier_list[workers[w].i]
           entry == [id |-> c, timing |-> timing]
       IN  workers' = [workers EXCEPT
              ![w].i = workers[w].i + 1,
              ![w].seen = Append(workers[w].seen,
                                 [id |-> c, outcome |-> outcome]),
              ![w].p.valid = IF RecordsCarrier(outcome)
                             THEN Append(workers[w].p.valid, entry)
                             ELSE workers[w].p.valid]
    /\ UNCHANGED <<proxies, carrier_list>>
    /\ ServiceUnchanged

\* test(): the iterator is exhausted; False when valid_carriers is empty,
\* else speed = round(sum of timings / len) and True
test_end(w) ==
    /\ workers[w].pc = "test"
    /\ workers[w].i > Len(carrier_list)
    /\ LET v == workers[w].p.valid
       IN  IF Len(v) = 0
           THEN workers' = [workers EXCEPT ![w].pc = "tested", ![w].ret = FALSE]
           ELSE workers' = [workers EXCEPT
                   ![w].pc = "tested", ![w].ret = TRUE,
                   ![w].p.speed = Round(SumTimings(v), Len(v))]
    /\ UNCHANGED <<proxies, carrier_list>>
    /\ ServiceUnchanged

\* The row save() writes, without the carriers of the test
save_row_old_carriers(p) ==
    [key |-> p.key, speed |-> p.speed,
     active |-> IF Len(p.valid) = 0 THEN FALSE ELSE p.active,
     carriers |-> IF p.dbid # 0 THEN proxies[p.dbid].carriers ELSE <<>>]

\* Proxy.save: active is cleared when valid_carriers is empty; the row
\* written by the INSERT or the UPDATE
save_row(p) ==
    [key |-> p.key, speed |-> p.speed,
     active |-> IF Len(p.valid) = 0 THEN FALSE ELSE p.active,
     carriers |-> p.valid]

\* Proxy.save: UPDATE the row db_id, or INSERT when db_id is None
save(p) ==
    IF p.dbid # 0
    THEN [proxies EXCEPT ![p.dbid] = save_row(p)]
    ELSE Append(proxies, save_row(p))

\* append(): when the test passed, under the list's lock, the server is
\* appended and saved; the worker is then free for the next item
append_save(w) ==
    /\ workers[w].pc = "tested"
    /\ workers[w].job = "import"
    /\ proxies' = IF workers[w].ret THEN save(workers[w].p) ELSE proxies
    /\ workers' = [workers EXCEPT ![w].pc = "idle", ![w].job = "none"]
    /\ UNCHANGED carrier_list
    /\ ServiceUnchanged

\* RefreshAction.perform: Proxy.list() of the active proxies
refresh_begin(w) ==
    /\ \A v \in Workers : workers[v].pc = "idle" /\ workers[v].n = 0
    /\ workers' = [workers EXCEPT ![w] =
          [IdleWorker EXCEPT !.pc = "next", !.job = "refresh",
                             !.n = 1, !.queue = Proxy_list,
                             !.listed = {id \in DOMAIN proxies :
                                            proxies[id].active}]]
    /\ UNCHANGED <<proxies, carrier_list>>
    /\ ServiceUnchanged

\* RefreshAction.perform: the next proxy of the list is tested, or the list
\* is exhausted
refresh_next(w) ==
    /\ workers[w].pc = "next"
    /\ IF workers[w].queue = <<>>
       THEN workers' = [workers EXCEPT ![w].pc = "idle", ![w].job = "none"]
       ELSE workers' = [workers EXCEPT
               ![w].pc = "carriers",
               ![w].p = [Head(workers[w].queue) EXCEPT !.valid = <<>>],
               ![w].queue = Tail(workers[w].queue),
               ![w].seen = <<>>]
    /\ UNCHANGED <<proxies, carrier_list>>
    /\ ServiceUnchanged

\* RefreshAction.perform: "if not proxy.test(): proxy.active = False", then
\* proxy.save()
refresh_save(w) ==
    /\ workers[w].pc = "tested"
    /\ workers[w].job = "refresh"
    /\ LET p == [workers[w].p EXCEPT
                   !.active = IF workers[w].ret THEN @ ELSE FALSE]
       IN  /\ proxies' = save(p)
           /\ workers' = [workers EXCEPT
                 ![w].pc = "next", ![w].p = p,
                 ![w].saved = workers[w].saved \cup
                    {[id |-> p.dbid, ret |-> workers[w].ret,
                      valid |-> p.valid, speed |-> p.speed]}]
    /\ UNCHANGED carrier_list
    /\ ServiceUnchanged

\* The script's process ends when its command is done; the next command
\* runs in a new process, where carriers() has not been called
command_exit ==
    /\ \A w \in Workers : workers[w].pc = "idle"
    /\ \E w \in Workers : workers[w].n > 0
    /\ workers' = [w \in Workers |-> IdleWorker]
    /\ carrier_list' = NoList
    /\ UNCHANGED proxies
    /\ ServiceUnchanged

\* The request has ended and its slot serves the next one, unless its
\* operation was left in the pool's list or a waiter still reads it.
recycle(r) ==
    /\ req[r].pc = "done"
    /\ r \notin SeqToSet(instances)
    /\ \A q \in Reqs : req[q].pc \in {"wait_dup", "send"} => req[q].dupOf # r
    /\ req' = [req EXCEPT ![r] = IdleReq]
    /\ ops' = [ops EXCEPT ![r] = NoOp]
    /\ UNCHANGED <<now, parcels, history, links, instances, pure,
                 accounts, tokens, areq, proxies, workers, carrier_list>>

\* ---------------------------------------------------------- specifications
\* The pool under concurrent requests by (carrier, code); the clock stands.
\* The parcel of such a request keeps the aware created of its constructor,
\* so its get_resp_dict() raises and no response is left to serialise.
PoolStep(r) ==
    \/ \E k \in Keys : track(r, "u1", k, "none")
    \/ get_operation(r)
    \/ is_available(r)
    \/ admission_timeout(r)
    \/ add_instance(r)
    \/ worker_begin(r)
    \/ \E o \in Outcomes : worker_fetch(r, o)
    \/ run_poll(r)
    \/ run_join(r)
    \/ \E rnd \in 1..NumRand : persist_parcel(r, rnd)
    \/ persist_history(r)
    \/ mark_done(r)
    \/ build_resp(r)
    \/ wait_duplicate(r)
    \/ recycle(r)

Next == \E r \in Reqs : PoolStep(r)

Spec == Init /\ [][Next]_vars

\* The pool when the carrier's fetch may end with any scraping error
ScrapeStep(r) ==
    \/ \E k \in Keys : track(r, "u1", k, "none")
    \/ get_operation(r)
    \/ is_available(r)
    \/ admission_timeout(r)
    \/ add_instance(r)
    \/ worker_begin(r)
    \/ \E o \in FetchOutcomes : worker_fetch(r, o)
    \/ run_poll(r)
    \/ run_join(r)
    \/ \E rnd \in 1..NumRand : persist_parcel(r, rnd)
    \/ persist_history(r)
    \/ mark_done(r)
    \/ build_resp(r)
    \/ wait_duplicate(r)
    \/ recycle(r)

NextScrape == \E r \in Reqs : ScrapeStep(r)

SpecScrape == Init /\ [][NextScrape]_vars

\* The freshness cache: requests by (carrier, code) and by slug served one
\* after the other in one slot, while the clock advances and users save and
\* archive parcels.  The slot serves the next request once its request has
\* ended, unless its operation was left in the pool's list.  The clock
\* advances between requests and before the steps of a request that read it;
\* links change between requests (no step after the lookup reads them).
CacheReqs == {1}
CacheKeys == {"k1"}
CacheSlugs == {SlugBase(k) : k \in CacheKeys} \X (1..NumRand)

CacheStep(r) ==
    \/ \E u \in Users, k \in CacheKeys, f \in ForceParams : track(r, u, k, f)
    \/ \E u \in Users, s \in CacheSlugs, f \in ForceParams :
          track_id(r, u, s, f)
    \/ \E u \in Users, s \in CacheSlugs, m \in Methods, n \in BOOLEAN :
          save_parcel_id(r, u, s, m, n)
    \/ \E u \in Users, k \in CacheKeys, m \in Methods, n \in BOOLEAN :
          save_parcel(r, u, k, m, n)
    \/ \E u \in Users, s \in CacheSlugs, m \in Methods :
          archive_flag_parcel(r, u, s, m)
    \/ \E u \in Users : list_parcels(r, u)
    \/ recycle(r)
    \/ get_operation(r)
    \/ is_available(r)
    \/ add_instance(r)
    \/ worker_begin(r)
    \/ \E o \in Outcomes : worker_fetch(r, o)
    \/ run_poll(r)
    \/ run_join(r)
    \/ \E rnd \in 1..NumRand : persist_parcel(r, rnd)
    \/ persist_history(r)
    \/ mark_done(r)
    \/ build_resp(r)
    \/ send_resp(r)

ClockRead == \A r \in CacheReqs : req[r].pc \in {"idle", "persist", "mark", "build"}

NextCache ==
    \/ ClockRead /\ Tick
    \/ \E r \in CacheReqs : CacheStep(r)

SpecCache == Init /\ [][NextCache]_vars

\* The same with fair scheduling: every thread that can take a step
\* eventually takes it (requests and workers are operating-system threads).
FairSpec == Spec /\ \A r \in Reqs : WF_vars(PoolStep(r))

\* Two users track one saved parcel at the same time.  The database
\* is as the requests of SpecCache leave it: one parcel with one snapshot
\* older than the refresh timeout, saved by both users, archived or not by
\* one of them.
InitShare ==
    /\ now = RefreshTimeout
    /\ parcels = <<[key |-> "k1", created |-> 0, slug |-> <<SlugBase("k1"), 1>>]>>
    /\ history = <<[pid |-> 1, retrieved |-> 0, data |-> 1]>>
    /\ \E a \in BOOLEAN :
          links = {[user |-> "u1", pid |-> 1, name |-> "u1",
                    archived |-> FALSE, row |-> 1],
                   [user |-> "su", pid |-> 1, name |-> "su",
                    archived |-> a, row |-> 1]}
    /\ instances = <<>>
    /\ ops = [r \in Reqs |-> NoOp]
    /\ req = [r \in Reqs |-> IdleReq]
    /\ pure = NoPure
    /\ InitTables

ShareStep(r) ==
    \/ \E u \in Users, k \in CacheKeys, f \in ForceParams : track(r, u, k, f)
    \/ \E u \in Users, s \in CacheSlugs, f \in ForceParams :
          track_id(r, u, s, f)
    \/ get_operation(r)
    \/ is_available(r)
    \/ add_instance(r)
    \/ worker_begin(r)
    \/ \E o \in Outcomes : worker_fetch(r, o)
    \/ run_poll(r)
    \/ run_join(r)
    \/ persist_history(r)
    \/ mark_done(r)
    \/ build_resp(r)
    \/ wait_duplicate(r)
    \/ send_resp(r)

NextShare == \E r \in Reqs : ShareStep(r)

SpecShare == InitShare /\ [][NextShare]_vars

\* The tracking code check alone, on every code up to MaxCodeLen characters
InitCode ==
    /\ now = 0
    /\ parcels = <<>>
    /\ history = <<>>
    /\ links = {}
    /\ instances = <<>>
    /\ ops = [r \in Reqs |-> NoOp]
    /\ req = [r \in Reqs |-> IdleReq]
    /\ pure \in [called : {FALSE}, code : Codes, route : {"none"},
                 result : {FALSE}, status : {0}]
    /\ InitTables

NextCode == \E route \in CodeRoutes : check_code(route)

SpecCode == InitCode /\ [][NextCode]_vars

\* ScrapingReturnedError built from every error object a script may report
InitError ==
    /\ now = 0
    /\ parcels = <<>>
    /\ history = <<>>
    /\ links = {}
    /\ instances = <<>>
    /\ ops = [r \in Reqs |-> NoOp]
    /\ req = [r \in Reqs |-> IdleReq]
    /\ pure \in [called : {FALSE}, err_id : 0..MaxErrId, code : ErrorCodes,
                 data : {"none", "details"},
                 exc : {[status_code |-> 0]}]
    /\ InitTables

NextError == raise_scraping_error

SpecError == InitError /\ [][NextError]_vars

\* Accounts and tokens: users register, create and revoke tokens and send
\* authenticated requests, one request after the other
NextAccounts ==
    \/ \E u \in AcctNames, p \in AcctPasswords, salt \in Salts :
          register(u, p, TRUE, salt)
    \/ \E key \in AuthKeys : resource_request(key)
    \/ \E u \in AcctNames \cup {None}, p \in AcctPasswords \cup {None},
          k \in TokenValues \cup {None} : call_authenticate(u, p, k)
    \/ \E key \in AuthKeys, d \in Descriptions, v \in TokenValues :
          create_auth_token(key, d, v)
    \/ \E key \in AuthKeys, k \in TokenValues : revoke_auth_token(key, k)

SpecAccounts == Init /\ [][NextAccounts]_vars

\* An import: each item of the provider's response is handled by one of the
\* pool's parallel workers
ImportStep(w) ==
    \/ \E key \in ProxyKeys : import_item(w, key)
    \/ append_check(w)
    \/ carriers_call(w)
    \/ carriers_append(w)
    \/ \E o \in FetchOutcomes, ms \in 1..MaxTiming : test_carrier(w, o, ms)
    \/ test_end(w)
    \/ append_save(w)

NextImport == \E w \in Workers : ImportStep(w)

SpecImport == Init /\ [][NextImport]_vars

\* The outcomes of a carrier's fetch through a proxy that works and through
\* one that does not
CommandOutcomes == {"ok", "ProxyTimeout"}

\* The proxy script run again and again, one command after the other: an
\* import with parallel workers or a refresh
CommandStep(w) ==
    \/ \E key \in ProxyKeys : import_item(w, key)
    \/ append_check(w)
    \/ carriers_call(w)
    \/ carriers_append(w)
    \/ \E o \in CommandOutcomes, ms \in 1..MaxTiming : test_carrier(w, o, ms)
    \/ test_end(w)
    \/ append_save(w)
    \/ refresh_begin(w)
    \/ refresh_next(w)
    \/ refresh_save(w)

NextCommands == command_exit \/ \E w \in Workers : CommandStep(w)

SpecCommands == Init /\ [][NextCommands]_vars

\* Rows of the proxies table as save() leaves them: an active row has at
\* least one valid carrier
StoredRows ==
    {[key |-> k, speed |-> 1, active |-> a,
      carriers |-> IF a THEN <<[id |-> 1, timing |-> 1]>> ELSE <<>>] :
        k \in ProxyKeys, a \in BOOLEAN}

\* The refresh script starts on a table of stored proxies
InitProxyRefresh ==
    /\ now = 0
    /\ parcels = <<>>
    /\ history = <<>>
    /\ links = {}
    /\ instances = <<>>
    /\ ops = [r \in Reqs |-> NoOp]
    /\ req = [r \in Reqs |-> IdleReq]
    /\ pure = NoPure
    /\ accounts = {}
    /\ tokens = {}
    /\ areq = NoAreq
    /\ \E n \in 0..MaxRows : proxies \in [1..n -> StoredRows]
    /\ workers = [w \in Workers |-> IdleWorker]
    /\ carrier_list = NoList

\* The refresh script: one thread lists the active proxies, tests and saves
\* each of them
NextProxyRefresh ==
    \/ refresh_begin(1)
    \/ refresh_next(1)
    \/ carriers_call(1)
    \/ carriers_append(1)
    \/ \E o \in FetchOutcomes, ms \in 1..MaxTiming : test_carrier(1, o, ms)
    \/ test_end(1)
    \/ refresh_save(1)

SpecProxyRefresh == InitProxyRefresh /\ [][NextProxyRefresh]_vars

\* One registration on every form of FormUsernames x FormPasswords, with
\* registrations allowed or not
InitRegister ==
    /\ now = 0
    /\ parcels = <<>>
    /\ history = <<>>
    /\ links = {}
    /\ instances = <<>>
    /\ ops = [r \in Reqs |-> NoOp]
    /\ req = [r \in Reqs |-> IdleReq]
    /\ pure \in [username : FormUsernames, password : FormPasswords,
                 allow : BOOLEAN]
    /\ InitTables

NextRegister ==
    /\ areq.kind = "none"
    /\ \E salt \in Salts :
          register(pure.username, pure.password, pure.allow, salt)

SpecRegister == InitRegister /\ [][NextRegister]_vars

\* should_refresh_parcel alone, on every combination of its arguments
InitRefreshArgs ==
    /\ now = 0
    /\ parcels = <<>>
    /\ history = <<>>
    /\ links = {}
    /\ instances = <<>>
    /\ ops = [r \in Reqs |-> NoOp]
    /\ req = [r \in Reqs |-> IdleReq]
    /\ pure \in [called : {FALSE}, archived : BOOLEAN,
                 diff : (-MaxDiff)..MaxDiff, force : BOOLEAN, result : {FALSE}]
    /\ InitTables

NextRefresh == call_should_refresh

\* A parcel created at any time of the first MaxCreatedDays days, looked up
\* at any age up to MaxAgeDays days
InitOutdated ==
    /\ now = 0
    /\ parcels = <<>>
    /\ history = <<>>
    /\ links = {}
    /\ instances = <<>>
    /\ ops = [r \in Reqs |-> NoOp]
    /\ req = [r \in Reqs |-> IdleReq]
    /\ \E c \in 0..(MaxCreatedDays * DayLen - 1), age \in 0..(MaxAgeDays * DayLen) :
          pure = [called |-> FALSE, created |-> c, t |-> c + age,
                  found |-> FALSE, outdated |-> FALSE]
    /\ InitTables

NextOutdated == call_outdated_tests

SpecOutdated == InitOutdated /\ [][NextOutdated]_vars

\* Carrier adapters fetching, each in the worker thread of its operation
InitAdapter ==
    /\ now = 0
    /\ parcels = <<>>
    /\ history = <<>>
    /\ links = {}
    /\ instances = <<>>
    /\ ops = [r \in Reqs |-> NoOp]
    /\ req = [r \in Reqs |-> IdleReq]
    /\ pure = [a \in Adapters |-> NewAdapter]
    /\ InitTables

AdapterStep(a) ==
    \/ \E o \in {"ok", "BrowserError", "PageError"} : fetch_page(a, o)
    \/ \E o \in {"ok", "ProxyTimeout", "ScrapingJsNotFound"} :
          load_scraping_js(a, o)
    \/ \E o \in {"ok", "WaitTimeoutError"} : wait_page_complete(a, o)
    \/ \E o \in {"ok"} \cup ScrapingCodes : scrape_check_error(a, o)
    \/ \E o \in {"ok"} \cup ScrapingCodes : scrape(a, o)
    \/ close_page(a)

NextAdapter == \E a \in Adapters : AdapterStep(a)

SpecAdapter == InitAdapter /\ [][NextAdapter]_vars

\* Carrier objects in every combination of their fields
PairCarriers ==
    [key : Keys, dbid : 0..1, slug : {NoSlug} \cup ({"p"} \X (1..NumRand)),
     name : {"none", "n1"}, archived : BOOLEAN, cached : BOOLEAN,
     created : {NowUTC(0), Naive(1)}, lastUpdated : {NowUTC(0), Naive(1)},
     data : 0..1]

\* Two carrier objects on which merge_resp_into or is_similar is called
InitPair ==
    /\ now = 0
    /\ parcels = <<>>
    /\ history = <<>>
    /\ links = {}
    /\ instances = <<>>
    /\ ops = [r \in Reqs |-> NoOp]
    /\ req = [r \in Reqs |-> IdleReq]
    /\ pure \in [called : {"none"}, a : PairCarriers, b : PairCarriers,
                 merged : {NewCarrier("k1", 0)}, similar : {FALSE}]
    /\ InitTables

NextPair == call_merge_resp_into \/ call_is_similar

SpecPair == InitPair /\ [][NextPair]_vars

SpecRefresh == InitRefreshArgs /\ [][NextRefresh]_vars

\* ============================================================== properties
InFlight == SeqToSet(instances)

\* C1: the in-flight list never holds two operations whose parcels have the
\* same (carrier, tracking code).
C1_SingleFlight ==
    \A i, j \in DOMAIN instances :
        i # j => req[instances[i]].key # req[instances[j]].key

\* C2: with requests for distinct parcels, the in-flight list never holds
\* more than max_instances operations.
C2_PoolBound ==
    (\A i, j \in DOMAIN instances :
        i # j => req[instances[i]].key # req[instances[j]].key)
    => Len(instances) <= MaxInstances

\* C3: an operation whose run has ended, by returning or by re-raising the
\* worker's exception, is no longer in the in-flight list.
C3_DroppedAfterRun ==
    \A r \in Reqs : ops[r].ended => r \notin InFlight

\* C4: a request that received DuplicateScrapingOperation eventually sees the
\* operation done and answers.
C4_WaiterAnswers ==
    \A r \in Reqs : (req[r].pc = "wait_dup") ~> (req[r].pc = "done")

\* C5: a request whose admission wait timed out is answered 503 and has no
\* operation: none was created, none is in the in-flight list, nothing was
\* stored; and no request still waiting for admission owns an operation.
C5_AdmissionTimeout ==
    \A r \in Reqs :
        /\ req[r].timedOut =>
              /\ req[r].pc = "done"
              /\ req[r].resp.status = 503
              /\ ~ops[r].made
              /\ r \notin InFlight
              /\ req[r].appended = 0
        /\ req[r].pc \in {"admit", "admit_sleep"} =>
              ~ops[r].made /\ r \notin InFlight

\* C5 witness: a request timed out while the pool was full
C5_Witness ==
    \E r \in Reqs : req[r].timedOut /\ Len(instances) >= MaxInstances

\* C6: should_refresh is false for every archived parcel, whatever diff_secs
\* and force.
C6_ArchivedNeverRefreshed ==
    (pure.called /\ pure.archived) => ~pure.result

\* C7: for a non-archived parcel should_refresh is true exactly when force is
\* set or |diff_secs| >= refresh_timeout.
C7_NonArchivedRefresh ==
    (pure.called /\ ~pure.archived) =>
        (pure.result <=>
            (pure.force \/ pure.diff >= RefreshTimeout
                        \/ pure.diff <= -RefreshTimeout))

\* C7 witness: the boundary |diff_secs| = refresh_timeout, not forced
C7_Witness ==
    /\ pure.called /\ ~pure.archived /\ ~pure.force
    /\ pure.diff = -RefreshTimeout
    /\ pure.result

\* A request by (carrier, code) with ?force=true that found a snapshot
\* younger than the refresh timeout
ForcedOnYoung(r) ==
    /\ req[r].kind = "code"
    /\ req[r].force = "true"
    /\ req[r].lk.found
    /\ ~req[r].lk.stale

\* The stored snapshot a request found, as its answer
ServedFromCache(r) ==
    /\ req[r].pc = "done"
    /\ ~req[r].dispatched
    /\ ~ops[r].made
    /\ req[r].appended = 0
    /\ req[r].resp.status = 200
    /\ req[r].resp.cached
    /\ req[r].resp.data = req[r].lk.data
    /\ req[r].resp.retrieved = req[r].lk.retrieved

\* The scrape of request r succeeded and its result has been stored
ScrapeStored(r) ==
    /\ req[r].pc \in {"mark", "build", "send", "done"}
    /\ ops[r].ended
    /\ ops[r].exc = "none"

\* C8: ?force=true by (carrier, code) on a parcel that the lookup resolves
\* and whose latest snapshot is younger than the refresh timeout: a user below
\* access level 100 is served the stored snapshot and no scrape is dispatched;
\* a superuser's request goes to the scraping pool, and once its scrape has
\* succeeded a new snapshot of that parcel has been appended.
C8_ForceOnlySuperuser ==
    \A r \in Reqs :
        ForcedOnYoung(r) =>
            IF AccessLevel(req[r].user) >= 100
            THEN /\ req[r].dispatched
                 /\ ScrapeStored(r) =>
                       /\ req[r].appended \in DOMAIN history
                       /\ history[req[r].appended].pid = req[r].lk.pid
                       /\ history[req[r].appended].retrieved >= req[r].lk.at
                       /\ history[req[r].appended].data = r
            ELSE ServedFromCache(r)

\* C8 witness: a superuser's forced request on a young snapshot has appended
\* a snapshot
C8_Witness ==
    \E r \in Reqs :
        /\ ForcedOnYoung(r)
        /\ AccessLevel(req[r].user) >= 100
        /\ ScrapeStored(r)
        /\ req[r].appended # 0

\* C9: a request by slug never dispatches a scrape for an outdated parcel:
\* the owner is served the stored snapshot (marked outdated), whatever the
\* snapshot's age, the archived flag and the force value.
C9_OutdatedBySlugCached ==
    \A r \in Reqs :
        (req[r].kind = "slug" /\ req[r].lk.found /\ req[r].lk.outdated) =>
            /\ ServedFromCache(r)
            /\ req[r].resp.outdated

\* C9 witness: an outdated, non-archived parcel with a stale snapshot was
\* requested by slug with force=true and answered
C9_Witness ==
    \E r \in Reqs :
        /\ req[r].kind = "slug" /\ req[r].lk.found /\ req[r].lk.outdated
        /\ req[r].lk.stale /\ ~req[r].lk.archived /\ req[r].force = "true"
        /\ req[r].pc = "done"

\* C10: a non-forced request by (carrier, code) that arrives less than
\* refresh_timeout after the latest stored snapshot of that (carrier, code)
\* dispatches no scrape, stores nothing and answers cached=true with that
\* snapshot's retrieved time and payload.
C10_FreshServedFromCache ==
    \A r \in Reqs :
        (req[r].kind = "code" /\ req[r].force \in {"none", "false"}
                              /\ req[r].lk.fresh) =>
            /\ ~req[r].dispatched
            /\ req[r].pc = "done"
            /\ req[r].appended = 0
            /\ req[r].resp.cached
            /\ req[r].resp.retrieved = req[r].lk.freshRetrieved
            /\ req[r].resp.data \in req[r].lk.freshData

\* The snapshot (retrieved, data) is the most recent one stored for parcel pid
MostRecentOf(pid, retrieved, data) ==
    /\ \A h \in Ids(history) :
          history[h].pid = pid => history[h].retrieved <= retrieved
    /\ \E h \in Ids(history) :
          /\ history[h].pid = pid
          /\ history[h].retrieved = retrieved
          /\ history[h].data = data

C12_WriteThrough ==
    \A r \in Reqs :
        /\ (ops[r].ended /\ ops[r].exc # "none") =>
              (req[r].inserted = 0 /\ req[r].appended = 0)
        /\ (ops[r].ended /\ ops[r].exc = "none" /\ req[r].pc = "done") =>
              /\ (req[r].inserted # 0) <=> (req[r].lk.resolved = 0)
              /\ req[r].inserted # 0 =>
                    /\ req[r].inserted \in Ids(parcels)
                    /\ parcels[req[r].inserted].key = req[r].key
              /\ req[r].appended \in Ids(history)
              /\ history[req[r].appended].pid =
                    (IF req[r].lk.resolved # 0 THEN req[r].lk.resolved
                     ELSE req[r].inserted)

\* C13: the parcels table never holds two rows with the same (carrier,
\* tracking code).
C13_NaturalKeyUnique ==
    \A i, j \in Ids(parcels) : i # j => parcels[i].key # parcels[j].key

\* C14: the parcels table never holds two rows with the same slug.
C14_SlugUnique ==
    \A i, j \in Ids(parcels) : i # j => parcels[i].slug # parcels[j].slug

\* Request w of one user was coalesced on the operation of request p of
\* another user and both were answered
Coalesced(p, w) ==
    /\ req[w].dupOf = p
    /\ req[p].pc = "done" /\ req[w].pc = "done"
    /\ req[p].resp.status = 200 /\ req[w].resp.status = 200
    /\ req[p].user # req[w].user

\* The answer carries the name and the flag that the request's own lookup
\* read from the link of its user (none and false when it read no link)
OwnFields(r) ==
    /\ req[r].resp.name = req[r].c.name
    /\ req[r].resp.archived = req[r].c.archived

\* C15: two requests of different users coalesced on one scrape operation
\* both answer with the same tracking events, and each answer carries the
\* name and the archived flag of the user who asked, never the other's.
C15_CoalescedOwnFields ==
    \A p, w \in Reqs :
        Coalesced(p, w) =>
            /\ req[p].resp.data = req[w].resp.data
            /\ OwnFields(p) /\ OwnFields(w)

SaveAnswered(r) ==
    /\ req[r].kind \in {"save", "save_code"}
    /\ req[r].pc = "done"

\* C17: a POST save of a parcel the user has already saved is rejected with
\* 422 and leaves the links as they were; a DELETE save of a saved parcel
\* leaves the user without a link to it; a DELETE save of a parcel the user
\* has not saved is rejected with 422 and changes nothing.
C17_SaveRoundTrip ==
    \A r \in Reqs :
        SaveAnswered(r) =>
            /\ (req[r].method = "POST" /\ req[r].lk.linked) =>
                  (req[r].resp.status = 422 /\ links = req[r].lk.links)
            /\ (req[r].method = "DELETE" /\ req[r].lk.linked) =>
                  OwnLinks(req[r].user, req[r].slugArg) = {}
            /\ (req[r].method = "DELETE" /\ ~req[r].lk.linked) =>
                  (req[r].resp.status = 422 /\ links = req[r].lk.links)

\* An archive request has been answered
ArchiveAnswered(r) == req[r].kind = "archive" /\ req[r].pc = "done"

\* The flag of the links the archive request r looked at
FlagIs(r, v) ==
    \A l \in links :
        (l.user = req[r].user /\ l.pid = req[r].lk.pid) => l.archived = v

\* C18: an archive request on a parcel the user has not saved, a POST on an
\* archived link (the second of two successive POSTs) and a DELETE on a link
\* that is not archived are rejected with 422 and change nothing, so the
\* flag stays true after the second POST; any other request is accepted and
\* leaves archived = true after POST and archived = false after DELETE.
C18_ArchiveToggle ==
    \A r \in Reqs :
        ArchiveAnswered(r) =>
            IF ~req[r].lk.linked
            THEN req[r].resp.status = 422 /\ links = req[r].lk.links
            ELSE IF (req[r].method = "POST") = req[r].lk.archived
            THEN /\ req[r].resp.status = 422
                 /\ links = req[r].lk.links
                 /\ FlagIs(r, req[r].method = "POST")
            ELSE /\ req[r].resp.status = 200
                 /\ FlagIs(r, req[r].method = "POST")
                 /\ {[l EXCEPT !.archived = FALSE] : l \in links}
                      = {[l EXCEPT !.archived = FALSE] : l \in req[r].lk.links}

\* The second of two POSTs has been answered: the link was archived by an
\* earlier POST
C18_Witness ==
    \E r \in Reqs :
        /\ ArchiveAnswered(r)
        /\ req[r].lk.linked /\ req[r].lk.archived
        /\ req[r].method = "POST"
        /\ req[r].resp.status = 422

\* C19: after any sequence of save, delete and archive requests there is at
\* most one link per (user, parcel), and every link refers to a parcel row
\* that exists.
C19_LinkUnique ==
    /\ \A l1, l2 \in links :
          (l1.user = l2.user /\ l1.pid = l2.pid) => l1 = l2
    /\ \A l \in links : l.pid \in Ids(parcels)

\* A user who has saved a parcel has asked to save it again
C19_Witness ==
    \E r \in Reqs :
        /\ SaveAnswered(r)
        /\ req[r].method = "POST"
        /\ req[r].lk.linked
        /\ OwnLinks(req[r].user, req[r].slugArg) # {}

\* The code matches ^[A-Za-z0-9-]+$: one character or more, all in the class
MatchesPattern(code) ==
    /\ Len(code) >= 1
    /\ \A i \in 1..Len(code) : code[i] \in ValidChars

\* C20: is_tracking_code_valid accepts a code exactly when it matches
\* ^[A-Za-z0-9-]+$, so the empty code is rejected, and track and save answer
\* 422 for every rejected code.
C20_CodePattern ==
    pure.called =>
        /\ pure.result <=> MatchesPattern(pure.code)
        /\ ~MatchesPattern(pure.code) => pure.status = 422

\* C21: a registration whose username is shorter than 3 or longer than 30
\* characters, or whose password is shorter than 6 or longer than 250, is
\* answered 422 and creates no user.
C21_RegisterLengths ==
    (/\ areq.kind = "register"
     /\ \/ Len(areq.username) \notin UserMinLen..UserMaxLen
        \/ Len(areq.password) \notin PassMinLen..PassMaxLen)
    => (areq.status = 422 /\ accounts = {})

\* C22: a ScrapingReturnedError has status 422 when its code is one of the
\* classified names and status 500 when its code is any other name.
C22_ScrapingErrorStatus ==
    pure.called =>
        pure.exc.status_code = (IF pure.code \in ClassifiedCodes
                                THEN 422 ELSE 500)

\* The failures of authenticate and http_authenticate that reject the
\* credentials presented
CredentialFailures ==
    {"malformed_key", "unknown_username", "wrong_password", "wrong_token",
     "both_secrets"}

\* C23: a request whose authentication failed because of a malformed key, an
\* unknown username, a wrong password, a wrong or inactive token or both
\* secrets being supplied is answered with status 401 or 422.
C23_AuthFailureStatus ==
    (/\ areq.kind \in {"resource", "authenticate", "token_new", "revoke"}
     /\ ~areq.auth.ok
     /\ areq.auth.failure \in CredentialFailures)
    => areq.status \in {401, 422}

\* The token that the request handed to authenticate() as its secret, if its
\* key was well formed
PresentedToken(a) ==
    IF a.kind \in {"resource", "token_new", "revoke"} /\ a.key # NoKey
       /\ Len(a.key) = 2 /\ a.auth.failure # "malformed_key"
    THEN a.key[2] ELSE None

\* Token value v had been revoked for some user, and was active for nobody,
\* when the request was served
WasRevoked(a, v) ==
    /\ \E k \in a.before : k.token = v /\ ~k.active
    /\ ~\E k \in a.before : k.token = v /\ k.active

\* C24: a request that authenticates with a revoked token fails with 401, a
\* revoke of a token that is already revoked is rejected with 422, and no
\* step sets the active flag of a token back to true.
C24_RevocationPermanent ==
    /\ [](WasRevoked(areq, PresentedToken(areq)) => areq.status = 401)
    /\ []((areq.kind = "revoke" /\ areq.auth.ok
            /\ WasRevoked(areq, areq.target)) => areq.status = 422)
    /\ [][\A k \in tokens : ~k.active => k \in tokens']_vars

\* A user revoked the token and then presented it again
C24_Witness ==
    /\ WasRevoked(areq, PresentedToken(areq))
    /\ areq.kind = "resource"
    /\ \E k \in areq.before : k.token = PresentedToken(areq)
                                /\ k.user = areq.key[1]

\* The carriers of a sequence of tried carriers whose fetch succeeded or
\* failed with ParcelNotFound or InvalidTrackingCode
RECURSIVE GoodIds(_)
GoodIds(seen) ==
    IF seen = <<>> THEN <<>>
    ELSE (IF Head(seen).outcome \in {"ok", "ParcelNotFound",
                                      "InvalidTrackingCode"}
          THEN <<Head(seen).id>> ELSE <<>>) \o GoodIds(Tail(seen))

\* n is the mean sum / count rounded to a nearest integer
IsRoundedMean(n, sum, count) ==
    LET d == n * count - sum
    IN  2 * (IF d < 0 THEN -d ELSE d) <= count

\* The test of worker w has returned
TestReturned(w) == workers[w].pc = "tested"

\* C25: when Proxy.test returns it has tried every registered carrier,
\* valid_carriers holds exactly the carriers whose fetch succeeded or failed
\* with ParcelNotFound or InvalidTrackingCode, the result is false iff
\* valid_carriers is empty, and otherwise speed is the rounded mean of the
\* recorded timings.
C25_TestTriesEveryCarrier ==
    \A w \in Workers : TestReturned(w) =>
        LET p == workers[w].p
        IN  /\ [i \in DOMAIN workers[w].seen |-> workers[w].seen[i].id]
                  = [i \in 1..NumCarriers |-> i]
            /\ [i \in DOMAIN p.valid |-> p.valid[i].id]
                  = GoodIds(workers[w].seen)
            /\ workers[w].ret = (p.valid # <<>>)
            /\ workers[w].ret =>
                  IsRoundedMean(p.speed, SumTimings(p.valid), Len(p.valid))

\* The refresh has gone through its whole list
RefreshDone == workers[1].pc = "idle" /\ workers[1].n = 1

\* The row of proxy s.id holds the outcome s of its test
StoredAsTested(s) ==
    IF s.ret
    THEN /\ proxies[s.id].active
         /\ proxies[s.id].carriers = s.valid
         /\ proxies[s.id].speed = s.speed
    ELSE ~proxies[s.id].active

C27_NoDuplicateProxy ==
    \A i, j \in DOMAIN proxies :
        proxies[i].key = proxies[j].key => i = j

\* C28: once the worker thread of an operation has been started, run
\* eventually joins it and sets the state SCRAPED, whichever of the worker
\* and the caller moves first.
C28_RunTerminates ==
    \A r \in Reqs : (req[r].pc = "run_poll") ~> (ops[r].state >= SCRAPED)

\* C29: the state of an operation never moves to a lower value of
\* SETUP < FETCHING < FETCHED < SCRAPED < DONE, in any step of the worker,
\* of run or of the caller.
C29_StateMonotonic ==
    [][\A r \in Reqs :
          (ops[r].made /\ ops'[r].made) => ops'[r].state >= ops[r].state]_vars

\* An operation went through every state up to DONE
C29_Witness == \E r \in Reqs : ops[r].made /\ ops[r].state = DONE

\* The worker of operation op has ended
WorkerEnded(op) == op.made /\ op.thread = "dead"

\* The fetch of operation op raised an exception
FetchRaised(op) == op.fetched \notin {"none", "ok"}

\* C30: an exception raised by the carrier's fetch in the worker is stored
\* on the operation and the worker still sets FETCHED; once run has joined
\* the worker the stored exception has been raised to run's caller; a
\* warning is logged for every exception but ParcelNotFound and
\* InvalidTrackingCode.
C30_ExceptionStored ==
    \A r \in Reqs :
        /\ (WorkerEnded(ops[r]) /\ FetchRaised(ops[r])) =>
              /\ ops[r].exc = ops[r].fetched
              /\ ops[r].state >= FETCHED
              /\ ops[r].logged = (ops[r].fetched \notin
                                    {"ParcelNotFound", "InvalidTrackingCode"})
        /\ (WorkerEnded(ops[r]) /\ ~FetchRaised(ops[r])) =>
              (ops[r].exc = "none" /\ ~ops[r].logged)
        /\ (WorkerEnded(ops[r]) /\ ops[r].state >= SCRAPED) =>
              ops[r].raised = ops[r].exc

\* run has joined a worker whose fetch raised InvalidTrackingCode, and the
\* worker of another operation stored an exception that was logged
C30_Witness ==
    \E r, q \in Reqs :
        /\ WorkerEnded(ops[r])
        /\ ops[r].fetched = "InvalidTrackingCode"
        /\ ops[r].state >= SCRAPED
        /\ WorkerEnded(ops[q])
        /\ ops[q].fetched = "Blocked"

\* Request r was coalesced on an operation and has merged its base parcel
Merged(r) == req[r].dupOf # 0 /\ req[r].pc \in {"send", "done"}

\* C31: when a coalesced waiter merges the base parcel, the parcel row and
\* the new snapshot are committed: the merged parcel has its db_id and its
\* slug, and its history is a stored snapshot of that parcel.
C31_MergeAfterCommit ==
    \A r \in Reqs : Merged(r) =>
        /\ req[r].c.dbid # 0
        /\ req[r].c.slug # NoSlug
        /\ \E h \in Ids(history) :
              history[h].pid = req[r].c.dbid /\ history[h].data = req[r].c.data

\* C32: merge_resp_into copies db_id, history, slug, created and
\* last_updated of the operation's base parcel into the waiter's parcel and
\* sets cached to false; the waiter's archived flag and parcel name stay as
\* they were.
C32_MergeFrame ==
    pure.called = "merge" =>
        /\ pure.merged.dbid = pure.a.dbid
        /\ pure.merged.data = pure.a.data
        /\ pure.merged.slug = pure.a.slug
        /\ pure.merged.created = pure.a.created
        /\ pure.merged.lastUpdated = pure.a.lastUpdated
        /\ pure.merged.cached = FALSE
        /\ pure.merged.archived = pure.b.archived
        /\ pure.merged.name = pure.b.name
        /\ pure.merged.key = pure.b.key

\* A merge in which every copied field of the base parcel differs from the
\* waiter's, and so do the name and the archived flag
C32_Witness ==
    /\ pure.called = "merge"
    /\ pure.a.dbid # pure.b.dbid
    /\ pure.a.data # pure.b.data
    /\ pure.a.slug # pure.b.slug
    /\ pure.a.created # pure.b.created
    /\ pure.a.lastUpdated # pure.b.lastUpdated
    /\ pure.a.name # pure.b.name
    /\ pure.a.archived # pure.b.archived
    /\ pure.b.cached

\* C33: the fetch timeout ends only requests that own no operation; a
\* started worker is never stopped from outside: it stays alive until it
\* ends with the outcome of the carrier's fetch, and it does end.
C33_WorkerNotCancelled ==
    /\ [](\A r \in Reqs : req[r].timedOut => ~ops[r].made)
    /\ [][\A r \in Reqs : is_alive(ops[r]) =>
             \/ is_alive(ops'[r])
             \/ ops'[r].thread = "dead" /\ ops'[r].fetched \in Outcomes]_vars
    /\ \A r \in Reqs : is_alive(ops[r]) ~> (ops[r].thread = "dead")

\* A request timed out waiting for admission while the worker that held the
\* pool ran, and that worker has ended with its fetch
C33_Witness ==
    \E r, q \in Reqs :
        /\ req[r].timedOut
        /\ req[r].resp.status = 503
        /\ ops[q].thread = "dead"
        /\ ops[q].fetched \in Outcomes

\* Both parcels carry a slug
BothSlugs(a, b) == a.slug # NoSlug /\ b.slug # NoSlug

\* C34: is_similar(a, b) is true exactly when both slugs are present and
\* equal, or when a and b have the same carrier and tracking code, also when
\* both carry slugs that differ.
C34_SimilarRule ==
    pure.called = "similar" =>
        pure.similar = (\/ BothSlugs(pure.a, pure.b) /\ pure.a.slug = pure.b.slug
                        \/ pure.a.key = pure.b.key)

\* C35: when a carrier's fetch has ended, by return or by exception, the
\* adapter has no open page and what left fetch is the failure of its try
\* block (nothing, when it returned), not an error of the close step.
C35_DriverClosed ==
    \A a \in Adapters : pure[a].pc = "end" =>
        /\ pure[a].page = "none"
        /\ pure[a].raised = pure[a].failure

\* C36: a track response carries cached = true if and only if the request
\* was answered without a scrape, whether it came by code or by slug.
C36_CachedFlag ==
    \A r \in Reqs :
        (/\ req[r].kind \in {"code", "slug"}
         /\ req[r].pc = "done"
         /\ req[r].resp.status = 200)
        => (req[r].resp.cached = ~req[r].dispatched)

\* Request r took the DuplicateScrapingOperation path
Coalesced_on(r) == req[r].dupOf # 0

\* Request r owns an operation whose scrape succeeded, and has ended
ScrapedAndEnded(r) ==
    /\ req[r].pc = "done"
    /\ ops[r].made
    /\ ops[r].fetched = "ok"
    /\ ops[r].state >= SCRAPED

\* C37: a request coalesced on another request's operation inserts no parcel
\* row and no snapshot, and a request whose own scrape succeeded has
\* appended exactly one snapshot, of the parcel it tracked.
C37_OneSnapshotPerScrape ==
    \A r \in Reqs :
        /\ Coalesced_on(r) => (req[r].inserted = 0 /\ req[r].appended = 0)
        /\ ScrapedAndEnded(r) =>
              /\ req[r].appended \in Ids(history)
              /\ history[req[r].appended].pid = req[r].c.dbid

\* C38: for a parcel whose age is a whole number of days, the lookup by
\* (carrier, code) finds the row exactly when is_outdated is false, also at
\* an age of exactly outdated_period_days.
C38_OutdatedTestsAgree ==
    (pure.called /\ (pure.t - pure.created) % DayLen = 0)
        => (pure.found = ~pure.outdated)

\* C39: every row of the proxies table with active = true has a non-empty
\* list of valid carriers, after any sequence of imports and refreshes.
C39_ActiveHasCarriers ==
    \A id \in DOMAIN proxies : proxies[id].active => proxies[id].carriers # <<>>

\* After an import and a refresh the table holds a proxy that stayed active
\* with its carriers and one that the refresh demoted
C39_Witness ==
    /\ \A w \in Workers : workers[w].pc = "idle"
    /\ \E i, j \in DOMAIN proxies :
          /\ proxies[i].active /\ proxies[i].carriers # <<>>
          /\ ~proxies[j].active /\ proxies[j].carriers = <<>>

\* C40: a proxy row with active = false stays inactive in every step of an
\* import or a refresh, and no row with its (addr, port, protocol) is added.
C40_DemotionPermanent ==
    [][\A id \in DOMAIN proxies : ~proxies[id].active =>
          /\ id \in DOMAIN proxies'
          /\ ~proxies'[id].active
          /\ \A j \in DOMAIN proxies' \ DOMAIN proxies :
                proxies'[j].key # proxies[id].key]_vars

\* An import met a proxy whose row a refresh had demoted and ignored it: the
\* worker is idle again without having tested, the row is still the only one
\* of its key and still inactive
C40_Witness ==
    \E w \in Workers, id \in DOMAIN proxies :
        /\ ~proxies[id].active
        /\ workers[w].pc = "idle"
        /\ workers[w].n > 0
        /\ workers[w].p.key = proxies[id].key
        /\ workers[w].p.dbid = 0
        /\ workers[w].seen = <<>>
        /\ carrier_list = NoList
        /\ \A j \in DOMAIN proxies : proxies[j].key = proxies[id].key => j = id

====
